---------------------------- MODULE Spec2Model ----------------------------
(***************************************************************************)
(* A model of zebrafy's graphic-field codec: the CRC-16 engine (crc.py),   *)
(* the graphic-field encoder (graphic_field.py), the graphic-field parser  *)
(* (zebrafy_zpl.py, and zpl_to_image of zebrafy.py) and the converters of  *)
(* images and PDF documents (zebrafy_image.py, zebrafy_pdf.py).  SpecCRC   *)
(* runs the CRC engine, SpecGF the encoder followed by the parser, SpecZPL *)
(* the parser on texts the encoder did not write, SpecFirst both parsers   *)
(* on those texts, SpecImage and SpecPDF the converters, and SpecConfig    *)
(* the constructors and property setters of all five classes.              *)
(*                                                                         *)
(* Text is a sequence of one-character strings, bytes are a sequence of    *)
(* numbers in 0..255.  A Python value handed to a constructor or a setter  *)
(* is a record [t |-> <type name>, v |-> <value>].                         *)
(***************************************************************************)
EXTENDS Integers, Sequences, FiniteSets, TLC

VARIABLES
    crc_obj,      \* the CRC instance: [data_bytes, poly], or NoObject
    crc_pc,       \* position in get_crc_hex_string: "idle", "loop", "done"
    crc_reg,      \* _get_crc16_ccitt: local crc
    crc_i,        \* _get_crc16_ccitt: index of the byte being processed
    crc_k,        \* _get_crc16_ccitt: bits of that byte already processed
    crc_cur,      \* _get_crc16_ccitt: local cur_byte
    crc_ret,      \* value returned by _get_crc16_ccitt (-1: none yet)
    crc_hex,      \* text returned by get_crc_hex_string
    gf_obj,       \* the GraphicField instance: [pil_image, format,
                  \* string_line_break], or NoObject
    gf_ret,       \* what get_graphic_field returned for gf_obj, or NoObject
    zpl_obj,      \* the ZebrafyZPL instance: [zpl_data], or NoObject
    zpl_ret,      \* what to_images returned for zpl_obj: [images], or NoObject
    zf_ret,       \* what Zebrafy.zpl_to_image returned for the text of
                  \* zpl_obj: [msg, image], or NoObject
    zi_obj,       \* the ZebrafyImage instance (a record of its properties),
                  \* or NoObject
    zi_ret,       \* what ZebrafyImage.to_zpl returned for zi_obj, or NoObject
    pdf_obj,      \* the ZebrafyPDF instance (a record of its properties),
                  \* or NoObject
    pdf_ret,      \* what ZebrafyPDF.to_zpl returned for pdf_obj, or NoObject
    call,         \* the last call made: [op, ...arguments]
    exc           \* what the last call raised: "none" or the exception class

crc_vars == <<crc_obj, crc_pc, crc_reg, crc_i, crc_k, crc_cur, crc_ret, crc_hex>>
gf_vars == <<gf_obj, gf_ret, zpl_obj, zpl_ret>>
img_vars == <<zf_ret, zi_obj, zi_ret, pdf_obj, pdf_ret>>
vars == <<crc_obj, crc_pc, crc_reg, crc_i, crc_k, crc_cur, crc_ret, crc_hex,
          gf_obj, gf_ret, zpl_obj, zpl_ret, zf_ret, zi_obj, zi_ret, pdf_obj,
          pdf_ret, call, exc>>

-----------------------------------------------------------------------------
(* Bounds of the model. *)

\* longest byte sequence handed to CRC
MaxCrcLen == 2
\* largest image width and height in pixels
MaxWidth == 9
MaxHeight == 2
\* largest string_line_break tried besides the 80 of the tests
MaxLineBreak == 1
\* most ^GF...^FS occurrences in one label
MaxFields == 3
\* most occurrences in one label that are not well-formed
MaxBadFields == 2

\* most pages of a PDF document
MaxPages == 3

-----------------------------------------------------------------------------
(* Python integers: the bitwise operators on non-negative integers. *)

\* the operators on one bit each
Xor1(a, b) == (a + b) % 2
And1(a, b) == a * b
Or1(a, b) == IF a + b > 0 THEN 1 ELSE 0

\* the operators on 4 bits each, tabulated from the one-bit operators
XorTable ==
    [a \in 0..15 |-> [b \in 0..15 |->
        Xor1(a % 2, b % 2) + 2 * Xor1((a \div 2) % 2, (b \div 2) % 2)
        + 4 * Xor1((a \div 4) % 2, (b \div 4) % 2) + 8 * Xor1(a \div 8, b \div 8)]]
AndTable ==
    [a \in 0..15 |-> [b \in 0..15 |->
        And1(a % 2, b % 2) + 2 * And1((a \div 2) % 2, (b \div 2) % 2)
        + 4 * And1((a \div 4) % 2, (b \div 4) % 2) + 8 * And1(a \div 8, b \div 8)]]
OrTable ==
    [a \in 0..15 |-> [b \in 0..15 |->
        Or1(a % 2, b % 2) + 2 * Or1((a \div 2) % 2, (b \div 2) % 2)
        + 4 * Or1((a \div 4) % 2, (b \div 4) % 2) + 8 * Or1(a \div 8, b \div 8)]]

\* a ^ b, 4 bits at a time
RECURSIVE BitXor(_, _)
BitXor(a, b) ==
    IF a < 16 /\ b < 16 THEN XorTable[a][b]
    ELSE XorTable[a % 16][b % 16] + 16 * BitXor(a \div 16, b \div 16)

\* a & b
RECURSIVE BitAnd(_, _)
BitAnd(a, b) ==
    IF a < 16 \/ b < 16 THEN AndTable[a % 16][b % 16]
    ELSE AndTable[a % 16][b % 16] + 16 * BitAnd(a \div 16, b \div 16)

\* a | b
RECURSIVE BitOr(_, _)
BitOr(a, b) ==
    IF a < 16 /\ b < 16 THEN OrTable[a][b]
    ELSE OrTable[a % 16][b % 16] + 16 * BitOr(a \div 16, b \div 16)

\* ~x & 0xFFFF for x >= 0: the low 16 bits of -x-1
InvertMask16(x) == 65535 - (x % 65536)

-----------------------------------------------------------------------------
(* Python values given to constructors and setters. *)

None == [t |-> "NoneType", v |-> 0]
PyInt(n) == [t |-> "int", v |-> n]
PyBytes(b) == [t |-> "bytes", v |-> b]
PyStr(s) == [t |-> "str", v |-> s]
PyBool(b) == [t |-> "bool", v |-> b]

\* isinstance(x, int): bool is a subclass of int
IsInt(x) == x.t \in {"int", "bool"}

\* the number an int or a bool counts as
IntValue(x) == IF x.t = "bool" THEN (IF x.v THEN 1 ELSE 0) ELSE x.v

NoObject == [t |-> "NoObject"]

RECURSIVE SeqsUpTo(_, _)
SeqsUpTo(S, n) ==
    IF n = 0 THEN {<<>>}
    ELSE LET shorter == SeqsUpTo(S, n - 1)
         IN  shorter \cup {Append(s, x) : s \in shorter, x \in S}


-----------------------------------------------------------------------------
(* crc.py *)

\* poly used when the constructor is given none (0x8408)
DefaultPoly == 33800

\* CRC.data_bytes setter: the exception it raises, "none" when it stores d
DataBytesSetterExcTypeFirst(d) ==
    IF d.t # "bytes" THEN "TypeError"
    ELSE "none"
DataBytesSetterExc(d) ==
    IF d.t = "NoneType" THEN "ValueError"
    ELSE IF d.t # "bytes" THEN "TypeError"
    ELSE "none"

\* CRC.poly setter: the exception it raises, "none" when it stores p
PolySetterExc(p) ==
    IF p.t = "NoneType" THEN "ValueError"
    ELSE IF p.t # "int" THEN "TypeError"
    ELSE "none"

\* one pass of the inner loop of _get_crc16_ccitt: the new crc
CrcBitStepMsb(crc, cur_byte, poly) ==
    IF BitXor(BitAnd(crc, 1), BitAnd(cur_byte \div 128, 1)) # 0
    THEN BitXor(crc \div 2, poly)
    ELSE crc \div 2
CrcBitStep(crc, cur_byte, poly) ==
    IF BitXor(BitAnd(crc, 1), BitAnd(cur_byte, 1)) # 0
    THEN BitXor(crc \div 2, poly)
    ELSE crc \div 2

(* The loops below are evaluated by halves: the passes lo..mid first, then  *)
(* the passes mid + 1..hi on what they leave.  That value is bound as the  *)
(* one element of a set, so that it is a value and not an expression TLC   *)
(* evaluates on demand, and the evaluation is nested log2 of the number of *)
(* passes deep instead of once per pass.                                    *)

\* passes lo..hi of the inner loop, for _ in range(0, 8), on st = <<crc,
\* cur_byte>>: cur_byte is shifted right by one after each pass
RECURSIVE CrcBits(_, _, _, _)
CrcBits(st, poly, lo, hi) ==
    CASE lo > hi -> st
      [] lo = hi -> <<CrcBitStep(st[1], st[2], poly), st[2] \div 2>>
      [] lo < hi ->
            CHOOSE r \in {CrcBits(half, poly, ((lo + hi) \div 2) + 1, hi) :
                             half \in {CrcBits(st, poly, lo, (lo + hi) \div 2)}} : TRUE

\* the inner loop over one byte: the crc after its 8 passes
CrcByte(crc, cur_byte, poly) == CrcBits(<<crc, cur_byte>>, poly, 1, 8)[1]

\* the outer loop, for b in data, over data[lo..hi]
RECURSIVE CrcLoop(_, _, _, _, _)
CrcLoop(crc, data, poly, lo, hi) ==
    CASE lo > hi -> crc
      [] lo = hi -> CrcByte(crc, BitAnd(255, data[lo]), poly)
      [] lo < hi ->
            CHOOSE r \in {CrcLoop(half, data, poly, ((lo + hi) \div 2) + 1, hi) :
                             half \in {CrcLoop(crc, data, poly, lo, (lo + hi) \div 2)}} : TRUE

\* the lines after the loops: complement, swap the two bytes, mask
CrcFinish(crc) ==
    LET c == InvertMask16(crc)
    IN  BitAnd(BitOr(c * 256, BitAnd(c \div 256, 255)), 65535)

\* CRC._get_crc16_ccitt
GetCrc16Ccitt(data_bytes, poly) ==
    CrcFinish(CrcLoop(65535, data_bytes, poly, 1, Len(data_bytes)))

HexUpperDigits == <<"0", "1", "2", "3", "4", "5", "6", "7",
                    "8", "9", "A", "B", "C", "D", "E", "F">>

\* format(n, "X"): the uppercase hexadecimal digits of n, no padding
RECURSIVE FormatX(_)
FormatX(n) ==
    IF n < 16 THEN <<HexUpperDigits[n + 1]>>
    ELSE Append(FormatX(n \div 16), HexUpperDigits[(n % 16) + 1])

\* zero padding on the left up to width characters
RECURSIVE ZeroPad(_, _)
ZeroPad(s, width) == IF Len(s) >= width THEN s ELSE ZeroPad(<<"0">> \o s, width)

\* f"{n:04X}"
Format04XNoPad(n) == FormatX(n)
Format04X(n) == ZeroPad(FormatX(n), 4)

\* CRC.get_crc_hex_string as a function of the instance's fields
GetCrcHexString(data_bytes, poly) ==
    CHOOSE s \in {Format04X(crc) : crc \in {GetCrc16Ccitt(data_bytes, poly)}} : TRUE

(* The values the model hands to CRC. *)
CrcByteValues == {0, 49, 255}
CrcDataInputs ==
    {None, PyInt(123), PyStr(<<"a">>)} \cup
    {PyBytes(b) : b \in SeqsUpTo(CrcByteValues, MaxCrcLen)}
\* 0x8408, 0xA001, 0x0001, 0xFFFF and the 17-bit 0x11021
CrcPolyValues == {DefaultPoly, 40961, 1, 65535, 69665}
CrcPolyInputs == {None, PyStr(<<"T">>)} \cup {PyInt(p) : p \in CrcPolyValues}

CrcInit ==
    /\ crc_obj = NoObject
    /\ crc_pc = "idle"
    /\ crc_reg = 0
    /\ crc_i = 0
    /\ crc_k = 0
    /\ crc_cur = 0
    /\ crc_ret = -1
    /\ crc_hex = <<>>

CrcResetCall ==
    /\ crc_pc' = "idle"
    /\ crc_reg' = 0
    /\ crc_i' = 0
    /\ crc_k' = 0
    /\ crc_cur' = 0
    /\ crc_ret' = -1
    /\ crc_hex' = <<>>

\* CRC.__init__(data_bytes, poly)
CRC_init(d, p) ==
    /\ crc_pc # "loop"
    /\ UNCHANGED <<gf_vars, img_vars>>
    /\ call' = [op |-> "CRC", data_bytes |-> d, poly |-> p]
    /\ LET e1 == DataBytesSetterExc(d)
           p1 == IF p.t = "NoneType" THEN PyInt(DefaultPoly) ELSE p
           e2 == PolySetterExc(p1)
       IN  IF e1 # "none"
           THEN /\ exc' = e1
                /\ UNCHANGED crc_vars
           ELSE IF e2 # "none"
           THEN /\ exc' = e2
                /\ UNCHANGED crc_vars
           ELSE /\ exc' = "none"
                /\ crc_obj' = [data_bytes |-> d.v, poly |-> p1.v]
                /\ CrcResetCall

\* crc.data_bytes = d
CRC_set_data_bytes(d) ==
    /\ crc_pc # "loop"
    /\ UNCHANGED <<gf_vars, img_vars>>
    /\ crc_obj # NoObject
    /\ call' = [op |-> "data_bytes", value |-> d]
    /\ exc' = DataBytesSetterExc(d)
    /\ IF DataBytesSetterExc(d) = "none"
       THEN /\ crc_obj' = [crc_obj EXCEPT !.data_bytes = d.v]
            /\ CrcResetCall
       ELSE UNCHANGED crc_vars

\* crc.poly = p
CRC_set_poly(p) ==
    /\ crc_pc # "loop"
    /\ UNCHANGED <<gf_vars, img_vars>>
    /\ crc_obj # NoObject
    /\ call' = [op |-> "poly", value |-> p]
    /\ exc' = PolySetterExc(p)
    /\ IF PolySetterExc(p) = "none"
       THEN /\ crc_obj' = [crc_obj EXCEPT !.poly = p.v]
            /\ CrcResetCall
       ELSE UNCHANGED crc_vars

\* get_crc_hex_string is entered: _get_crc16_ccitt up to the first byte
CRC_begin ==
    /\ crc_pc # "loop"
    /\ crc_obj # NoObject
    /\ call' = [op |-> "get_crc_hex_string"]
    /\ exc' = "none"
    /\ crc_pc' = "loop"
    /\ crc_reg' = 65535
    /\ crc_i' = 1
    /\ crc_k' = 0
    /\ crc_cur' = IF Len(crc_obj.data_bytes) >= 1
                  THEN BitAnd(255, crc_obj.data_bytes[1]) ELSE 0
    /\ crc_ret' = -1
    /\ crc_hex' = <<>>
    /\ UNCHANGED crc_obj
    /\ UNCHANGED <<gf_vars, img_vars>>

\* one pass of the inner loop (and the fetch of the next byte after the 8th)
CRC_bit_step ==
    /\ crc_pc = "loop"
    /\ crc_i <= Len(crc_obj.data_bytes)
    /\ crc_reg' = CrcBitStep(crc_reg, crc_cur, crc_obj.poly)
    /\ IF crc_k = 7
       THEN /\ crc_i' = crc_i + 1
            /\ crc_k' = 0
            /\ crc_cur' = IF crc_i + 1 <= Len(crc_obj.data_bytes)
                          THEN BitAnd(255, crc_obj.data_bytes[crc_i + 1]) ELSE 0
       ELSE /\ crc_i' = crc_i
            /\ crc_k' = crc_k + 1
            /\ crc_cur' = crc_cur \div 2
    /\ UNCHANGED <<crc_obj, crc_pc, crc_ret, crc_hex, call, exc>>
    /\ UNCHANGED <<gf_vars, img_vars>>

\* the loops are over: complement, swap, return, format
CRC_finish ==
    /\ crc_pc = "loop"
    /\ crc_i > Len(crc_obj.data_bytes)
    /\ crc_pc' = "done"
    /\ crc_ret' = CrcFinish(crc_reg)
    /\ crc_hex' = Format04X(CrcFinish(crc_reg))
    /\ UNCHANGED <<crc_obj, crc_reg, crc_i, crc_k, crc_cur, call, exc>>
    /\ UNCHANGED <<gf_vars, img_vars>>

CrcNext ==
    \/ \E d \in CrcDataInputs, p \in CrcPolyInputs : CRC_init(d, p)
    \/ \E d \in CrcDataInputs : CRC_set_data_bytes(d)
    \/ \E p \in CrcPolyInputs : CRC_set_poly(p)
    \/ CRC_begin
    \/ CRC_bit_step
    \/ CRC_finish

-----------------------------------------------------------------------------
(* Text and bytes: str.encode("ascii"), bytes.decode("ascii"), str.upper,  *)
(* str(int), int(str), slicing.                                            *)

\* the characters with codes 32..126, in code order (the grave accent, which
\* a TLA+ string cannot hold, is written <96>)
AsciiPrintable == <<
    " ", "!", "\"", "#", "$", "%", "&", "'", "(", ")", "*", "+",
    ",", "-", ".", "/", "0", "1", "2", "3", "4", "5", "6", "7",
    "8", "9", ":", ";", "<", "=", ">", "?", "@", "A", "B", "C",
    "D", "E", "F", "G", "H", "I", "J", "K", "L", "M", "N", "O",
    "P", "Q", "R", "S", "T", "U", "V", "W", "X", "Y", "Z", "[",
    "\\", "]", "^", "_", "<96>", "a", "b", "c", "d", "e", "f", "g",
    "h", "i", "j", "k", "l", "m", "n", "o", "p", "q", "r", "s",
    "t", "u", "v", "w", "x", "y", "z", "{", "|", "}", "~">>

\* chr(n) for the ASCII codes the model meets
Chr(n) == IF n = 10 THEN "\n" ELSE AsciiPrintable[n - 31]

OrdTable == [c \in {AsciiPrintable[j] : j \in 1..Len(AsciiPrintable)} |->
                31 + (CHOOSE j \in 1..Len(AsciiPrintable) : AsciiPrintable[j] = c)]

\* ord(c)
Ord(c) == IF c = "\n" THEN 10 ELSE OrdTable[c]

\* a character outside ASCII (U+00E9), written like the grave accent
NonAscii == "<233>"

\* s.encode("ascii") does not raise UnicodeEncodeError
IsAscii(s) == \A j \in 1..Len(s) : s[j] # NonAscii

\* s.encode("ascii")
EncodeAscii(s) == [j \in 1..Len(s) |-> Ord(s[j])]

\* b.decode("ascii")
DecodeAscii(b) == [j \in 1..Len(b) |-> Chr(b[j])]

\* c.upper() for one character
UpperChar(c) ==
    LET n == Ord(c) IN IF n >= 97 /\ n <= 122 THEN Chr(n - 32) ELSE c

\* s.upper()
Upper(s) == [j \in 1..Len(s) |-> UpperChar(s[j])]

\* str(n) for n >= 0
RECURSIVE FormatD(_)
FormatD(n) ==
    IF n < 10 THEN <<Chr(48 + n)>>
    ELSE Append(FormatD(n \div 10), Chr(48 + (n % 10)))

\* int(s) for a text of decimal digits
RECURSIVE ParseInt(_)
ParseInt(s) ==
    IF s = <<>> THEN 0
    ELSE 10 * ParseInt(SubSeq(s, 1, Len(s) - 1)) + (Ord(s[Len(s)]) - 48)

\* s[a:b] with Python's treatment of negative and out-of-range indices
PySlice(s, a, b) ==
    LET n == Len(s)
        lo0 == IF a < 0 THEN a + n ELSE a
        hi0 == IF b < 0 THEN b + n ELSE b
        lo == IF lo0 < 0 THEN 0 ELSE IF lo0 > n THEN n ELSE lo0
        hi == IF hi0 < 0 THEN 0 ELSE IF hi0 > n THEN n ELSE hi0
    IN  IF lo >= hi THEN <<>> ELSE SubSeq(s, lo + 1, hi)

\* s[a:]
PySliceFrom(s, a) == PySlice(s, a, Len(s))

\* s.startswith(prefix)
StartsWith(s, prefix) ==
    Len(s) >= Len(prefix) /\ SubSeq(s, 1, Len(prefix)) = prefix

\* the concatenation of a sequence of sequences
RECURSIVE Flatten(_)
Flatten(ss) ==
    IF Len(ss) = 0 THEN <<>>
    ELSE IF Len(ss) = 1 THEN ss[1]
    ELSE Flatten(SubSeq(ss, 1, Len(ss) \div 2))
         \o Flatten(SubSeq(ss, (Len(ss) \div 2) + 1, Len(ss)))

-----------------------------------------------------------------------------
(* The codecs of the standard library the encoder and the parser call:     *)
(* bytes.hex / bytes.fromhex, base64.b64encode / b64decode and             *)
(* zlib.compress / decompress.  Exceptions are named by their class.       *)

HexLowerDigits == <<"0", "1", "2", "3", "4", "5", "6", "7",
                    "8", "9", "a", "b", "c", "d", "e", "f">>

\* bytes.hex(): two lowercase digits per byte
BytesHex(b) ==
    [j \in 1..(2 * Len(b)) |->
        IF j % 2 = 1 THEN HexLowerDigits[(b[(j + 1) \div 2] \div 16) + 1]
        ELSE HexLowerDigits[(b[j \div 2] % 16) + 1]]

\* the value of a hexadecimal digit of either case, -1 for any other character
HexDigitValue(c) ==
    IF \E h \in 1..16 : HexLowerDigits[h] = c
    THEN (CHOOSE h \in 1..16 : HexLowerDigits[h] = c) - 1
    ELSE IF \E h \in 1..16 : HexUpperDigits[h] = c
    THEN (CHOOSE h \in 1..16 : HexUpperDigits[h] = c) - 1
    ELSE -1

\* the characters bytes.fromhex skips between two bytes (\t \v \f \r are not
\* characters of the model's texts)
HexWhitespace == {" ", "\n"}

\* bytes.fromhex at character i of s.  st = [exc, bytes, high]: high is the
\* first digit of a byte whose second digit is due, -1 between two bytes
FromHexStep(s, st, i) ==
    LET refused == [exc |-> "ValueError", bytes |-> <<>>, high |-> -1]
    IN  IF st.exc # "none" THEN st
        ELSE IF s[i] \in HexWhitespace THEN (IF st.high >= 0 THEN refused ELSE st)
        ELSE IF HexDigitValue(s[i]) < 0 THEN refused
        ELSE IF st.high < 0 THEN [st EXCEPT !.high = HexDigitValue(s[i])]
        ELSE [exc |-> "none",
              bytes |-> Append(st.bytes, 16 * st.high + HexDigitValue(s[i])),
              high |-> -1]

\* bytes.fromhex over the characters lo..hi of s
RECURSIVE FromHexRange(_, _, _, _)
FromHexRange(s, st, lo, hi) ==
    CASE lo > hi -> st
      [] lo = hi -> FromHexStep(s, st, lo)
      [] lo < hi ->
            CHOOSE r \in {FromHexRange(s, half, ((lo + hi) \div 2) + 1, hi) :
                             half \in {FromHexRange(s, st, lo, (lo + hi) \div 2)}} : TRUE

\* bytes.fromhex(s): [exc, bytes]
FromHex(s) ==
    LET r == FromHexRange(s, [exc |-> "none", bytes |-> <<>>, high |-> -1], 1, Len(s))
    IN  IF r.exc # "none" \/ r.high >= 0
        THEN [exc |-> "ValueError", bytes |-> <<>>]
        ELSE [exc |-> "none", bytes |-> r.bytes]

\* the ASCII code of the Base64 digit of value v (0..63)
B64Code(v) ==
    IF v < 26 THEN 65 + v
    ELSE IF v < 52 THEN 97 + (v - 26)
    ELSE IF v < 62 THEN 48 + (v - 52)
    ELSE IF v = 62 THEN 43
    ELSE 47

\* the value of the Base64 digit with ASCII code n, -1 when n is none
B64Value(n) ==
    IF n >= 65 /\ n <= 90 THEN n - 65
    ELSE IF n >= 97 /\ n <= 122 THEN n - 97 + 26
    ELSE IF n >= 48 /\ n <= 57 THEN n - 48 + 52
    ELSE IF n = 43 THEN 62
    ELSE IF n = 47 THEN 63
    ELSE -1

\* base64.b64encode(b): the bytes of the Base64 text, "=" (61) padded
RECURSIVE B64Encode(_)
B64Encode(b) ==
    IF Len(b) = 0 THEN <<>>
    ELSE IF Len(b) = 1 THEN
        <<B64Code(b[1] \div 4), B64Code((b[1] % 4) * 16), 61, 61>>
    ELSE IF Len(b) = 2 THEN
        <<B64Code(b[1] \div 4),
          B64Code((b[1] % 4) * 16 + (b[2] \div 16)),
          B64Code((b[2] % 16) * 4), 61>>
    ELSE
        <<B64Code(b[1] \div 4),
          B64Code((b[1] % 4) * 16 + (b[2] \div 16)),
          B64Code((b[2] % 16) * 4 + (b[3] \div 64)),
          B64Code(b[3] % 64)>> \o B64Encode(SubSeq(b, 4, Len(b)))

\* binascii.a2b_base64 (not strict) at character i.  st = [quad, pads, acc,
\* done]: quad the digits of the open group, pads the "=" seen since the last
\* digit, acc the bytes decoded.  A character outside the alphabet is skipped;
\* enough "=" after at least two digits of a group ends the decoding.
B64DecodeStep(codes, st, i) ==
    LET quad == st.quad
    IN  IF st.done THEN st
        ELSE IF codes[i] = 61 THEN
            IF Len(quad) >= 2 /\ st.pads + 1 >= 4 - Len(quad)
            THEN [quad |-> <<>>, pads |-> 0, done |-> TRUE,
                  acc |-> IF Len(quad) = 2
                          THEN Append(st.acc, quad[1] * 4 + (quad[2] \div 16))
                          ELSE st.acc \o <<quad[1] * 4 + (quad[2] \div 16),
                                           (quad[2] % 16) * 16 + (quad[3] \div 4)>>]
            ELSE [st EXCEPT !.pads = @ + 1]
        ELSE IF B64Value(codes[i]) < 0 THEN st
        ELSE IF Len(quad) = 3 THEN
            [quad |-> <<>>, pads |-> 0, done |-> FALSE,
             acc |-> st.acc \o <<quad[1] * 4 + (quad[2] \div 16),
                                 (quad[2] % 16) * 16 + (quad[3] \div 4),
                                 (quad[3] % 4) * 64 + B64Value(codes[i])>>]
        ELSE [st EXCEPT !.quad = Append(@, B64Value(codes[i])), !.pads = 0]

\* binascii.a2b_base64 over the characters lo..hi
RECURSIVE B64DecodeRange(_, _, _, _)
B64DecodeRange(codes, st, lo, hi) ==
    CASE lo > hi -> st
      [] lo = hi -> B64DecodeStep(codes, st, lo)
      [] lo < hi ->
            CHOOSE r \in {B64DecodeRange(codes, half, ((lo + hi) \div 2) + 1, hi) :
                             half \in {B64DecodeRange(codes, st, lo, (lo + hi) \div 2)}} : TRUE

\* base64.b64decode(s) for an ASCII text s: [exc, bytes]; a group left open
\* at the end is an error
B64Decode(s) ==
    LET r == B64DecodeRange(EncodeAscii(s),
                            [quad |-> <<>>, pads |-> 0, acc |-> <<>>, done |-> FALSE],
                            1, Len(s))
    IN  IF r.quad = <<>> THEN [exc |-> "none", bytes |-> r.acc]
        ELSE [exc |-> "binascii.Error", bytes |-> <<>>]

\* the sum of the bytes of b
RECURSIVE SumSeq(_)
SumSeq(b) ==
    IF Len(b) = 0 THEN 0
    ELSE IF Len(b) = 1 THEN b[1]
    ELSE SumSeq(SubSeq(b, 1, Len(b) \div 2))
         + SumSeq(SubSeq(b, (Len(b) \div 2) + 1, Len(b)))

\* zlib.adler32(b), as its high and its low 16 bits
Adler32(b) ==
    LET a == (1 + SumSeq(b)) % 65521
        partial == [j \in 1..Len(b) |-> (1 + SumSeq(SubSeq(b, 1, j))) % 65521]
        s2 == SumSeq(partial) % 65521
    IN  <<s2, a>>

\* n as count bytes, most significant first
RECURSIVE BigEndian(_, _)
BigEndian(n, count) ==
    IF count = 0 THEN <<>> ELSE Append(BigEndian(n \div 256, count - 1), n % 256)

\* zlib.compress(b): a zlib stream, that is the two header bytes 0x78 0x9C,
\* the deflate data and the Adler-32 of b.  The deflate data is one final
\* stored block (LEN, NLEN, the bytes): a stream every inflater accepts, but
\* not the Huffman-coded bytes the library emits at its default level.
ZlibCompress(b) ==
    <<120, 156>>
    \o <<1, Len(b) % 256, Len(b) \div 256,
         255 - (Len(b) % 256), 255 - (Len(b) \div 256)>>
    \o b
    \o BigEndian(Adler32(b)[1], 2) \o BigEndian(Adler32(b)[2], 2)

\* zlib.decompress(z) for the streams ZlibCompress builds: [exc, bytes];
\* anything else raises zlib.error, which is no ValueError
ZlibDecompress(z) ==
    LET n == Len(z) - 11
        body == SubSeq(z, 8, 7 + n)
        ok == /\ n >= 0
              /\ z[1] = 120
              /\ (z[1] * 256 + z[2]) % 31 = 0
              /\ (z[2] \div 32) % 2 = 0
              /\ z[3] = 1
              /\ z[4] + 256 * z[5] = n
              /\ z[6] = 255 - z[4]
              /\ z[7] = 255 - z[5]
              /\ SubSeq(z, 8 + n, Len(z))
                   = BigEndian(Adler32(body)[1], 2) \o BigEndian(Adler32(body)[2], 2)
    IN  IF ok THEN [exc |-> "none", bytes |-> body]
        ELSE [exc |-> "zlib.error", bytes |-> <<>>]

\* isinstance(e, ValueError) for the exception classes of the model
IsValueError(e) == e \in {"ValueError", "binascii.Error", "UnicodeEncodeError"}

-----------------------------------------------------------------------------
(* PIL images: [mode, size, px], px[y][x] the pixel of column x in row y   *)
(* (0 or 1 in mode "1", one number per band sample in mode "RGB").         *)

\* byte k (from 0) of a packed row: 8 pixels, the leftmost in the top bit,
\* the bits past the last pixel 0
PackByte(row, k) ==
    LET bit(j) == IF 8 * k + j + 1 <= Len(row) /\ row[8 * k + j + 1] # 0 THEN 1 ELSE 0
    IN  128 * bit(0) + 64 * bit(1) + 32 * bit(2) + 16 * bit(3)
        + 8 * bit(4) + 4 * bit(5) + 2 * bit(6) + bit(7)

\* one row of mode "1" packed into (len + 7) // 8 bytes
PackRow(row) == [k \in 1..((Len(row) + 7) \div 8) |-> PackByte(row, k - 1)]

\* Image.tobytes()
ToBytes(img) ==
    IF img.mode = "1"
    THEN Flatten([y \in 1..Len(img.px) |-> PackRow(img.px[y])])
    ELSE Flatten(img.px)

\* Image.frombytes("1", size, data): [exc, image]; too few bytes are refused,
\* bytes past the last row are ignored
FromBytes1(size, data) ==
    LET w == size[1]
        h == size[2]
        stride == (w + 7) \div 8
    IN  IF Len(data) < stride * h
        THEN [exc |-> "ValueError", image |-> NoObject]
        ELSE [exc |-> "none",
              image |-> [mode |-> "1", size |-> size,
                         px |-> [y \in 1..h |-> [x \in 1..w |->
                                   (data[(y - 1) * stride + ((x - 1) \div 8) + 1]
                                        \div (2 ^ (7 - ((x - 1) % 8)))) % 2]]]]

-----------------------------------------------------------------------------
(* graphic_field.py *)

ASCII == <<"A", "S", "C", "I", "I">>
B64 == <<"B", "6", "4">>
Z64 == <<"Z", "6", "4">>

\* bool(v) of a Python value
Truthy(v) ==
    IF v.t = "NoneType" THEN FALSE
    ELSE IF v.t = "int" THEN v.v # 0
    ELSE IF v.t = "bool" THEN v.v
    ELSE IF v.t \in {"str", "bytes"} THEN Len(v.v) > 0
    ELSE TRUE

\* GraphicField.pil_image setter: the exception it raises, "none" when it stores i
PilImageSetterExc(i) ==
    IF ~Truthy(i) THEN "ValueError"
    ELSE IF i.t # "Image" THEN "TypeError"
    ELSE "none"

\* GraphicField.format setter: the exception it raises, "none" when it stores f
FormatSetterExc(f) ==
    IF f.t = "NoneType" THEN "ValueError"
    ELSE IF f.t # "str" THEN "TypeError"
    ELSE IF f.v \notin {ASCII, B64, Z64} THEN "ValueError"
    ELSE "none"

\* GraphicField.string_line_break setter: the exception it raises, "none" when
\* it stores s
StringLineBreakSetterExc(s) ==
    IF Truthy(s) /\ ~IsInt(s) THEN "TypeError"
    ELSE IF Truthy(s) /\ IntValue(s) < 1 THEN "ValueError"
    ELSE "none"

\* GraphicField._compression_type_to_format for a str: a format name, or None
\* when no branch returns
CompressionTypeToFormat(compression_type) ==
    IF Upper(compression_type.v) = <<"A">> THEN PyStr(ASCII)
    ELSE IF Upper(compression_type.v) = <<"B">> THEN PyStr(B64)
    ELSE IF Upper(compression_type.v) = <<"C">> THEN PyStr(Z64)
    ELSE None

\* __init__ with the letter consulted first and the name only without one
InitFormatLetterFirst(compression_type, format) ==
    LET f == IF compression_type.t = "str" /\ CompressionTypeToFormat(compression_type) # None
             THEN CompressionTypeToFormat(compression_type)
             ELSE IF format.t # "NoneType" THEN format
             ELSE PyStr(ASCII)
    IN  IF f.t # "str" THEN [exc |-> "AttributeError", format |-> None]
        ELSE [exc |-> "none", format |-> PyStr(Upper(f.v))]

\* GraphicField.__init__ up to the assignment of format: [exc, format], the
\* exception being the AttributeError of .upper() on a value that is no str
InitFormat(compression_type, format) ==
    LET f == IF format.t # "NoneType" THEN format
             ELSE IF compression_type.t = "NoneType" THEN PyStr(ASCII)
             ELSE IF compression_type.t # "str" THEN [t |-> "AttributeError", v |-> 0]
             ELSE CompressionTypeToFormat(compression_type)
    IN  IF f.t # "str" THEN [exc |-> "AttributeError", format |-> None]
        ELSE [exc |-> "none", format |-> PyStr(Upper(f.v))]

\* GraphicField._get_bytes_per_row: int((width + 7) / 8).  The quotient of
\* the float division is exact for every width a PIL image can have (below
\* 2^53) and int() drops its fraction.
GetBytesPerRowNoRound(gf) == gf.pil_image.size[1] \div 8
GetBytesPerRow(gf) == (gf.pil_image.size[1] + 7) \div 8

\* GraphicField._get_graphic_field_count
GetGraphicFieldCount(gf) == GetBytesPerRow(gf) * gf.pil_image.size[2]

\* "\n".join(text[i : i + n] for i in range(0, len(text), n)): after every n
\* characters of text but the last ones comes a line break
JoinChunks(text, n) ==
    LET breaks == IF Len(text) = 0 THEN 0 ELSE (Len(text) - 1) \div n
    IN  [j \in 1..(Len(text) + breaks) |->
            IF j % (n + 1) = 0 THEN "\n" ELSE text[j - (j \div (n + 1))]]

\* GraphicField._get_data_string before the line breaks are put in
PayloadCrcOfRaw(gf) ==
    LET image_bytes == ToBytes(gf.pil_image)
    IN  IF gf.format = ASCII THEN BytesHex(image_bytes)
        ELSE IF gf.format = B64 THEN
            <<":", "B", "6", "4", ":">> \o DecodeAscii(B64Encode(image_bytes))
            \o <<":">> \o GetCrcHexString(image_bytes, DefaultPoly)
        ELSE
            <<":", "Z", "6", "4", ":">> \o DecodeAscii(B64Encode(ZlibCompress(image_bytes)))
            \o <<":">> \o GetCrcHexString(ZlibCompress(image_bytes), DefaultPoly)
Payload(gf) ==
    LET image_bytes == ToBytes(gf.pil_image)
    IN  IF gf.format = ASCII THEN BytesHex(image_bytes)
        ELSE IF gf.format = B64 THEN
            LET b64_bytes == B64Encode(image_bytes)
            IN  <<":", "B", "6", "4", ":">> \o DecodeAscii(b64_bytes)
                \o <<":">> \o GetCrcHexString(b64_bytes, DefaultPoly)
        ELSE IF gf.format = Z64 THEN
            LET z64_bytes == B64Encode(ZlibCompress(image_bytes))
            IN  <<":", "Z", "6", "4", ":">> \o DecodeAscii(z64_bytes)
                \o <<":">> \o GetCrcHexString(z64_bytes, DefaultPoly)
        ELSE <<>>

\* GraphicField._get_data_string
GetDataString(gf) ==
    IF Truthy(gf.string_line_break)
    THEN JoinChunks(Payload(gf), gf.string_line_break.v)
    ELSE Payload(gf)

\* GraphicField._get_binary_byte_count
GetBinaryByteCount(gf) == Len(GetDataString(gf))

\* the f-string of get_graphic_field: the text, with the values put into it
Directive(letter, binary_byte_count, graphic_field_count, bytes_per_row, data) ==
    [data |-> data,
     binary_byte_count |-> binary_byte_count,
     graphic_field_count |-> graphic_field_count,
     bytes_per_row |-> bytes_per_row,
     text |-> <<"^", "G", "F", letter, ",">> \o FormatD(binary_byte_count)
              \o <<",">> \o FormatD(graphic_field_count)
              \o <<",">> \o FormatD(bytes_per_row)
              \o <<",">> \o data \o <<"^", "F", "S">>]

\* GraphicField.get_graphic_field
GetGraphicFieldLetter(gf) ==
    Directive(IF gf.format = ASCII THEN "A" ELSE IF gf.format = B64 THEN "B" ELSE "C",
              GetBinaryByteCount(gf), GetGraphicFieldCount(gf),
              GetBytesPerRow(gf), GetDataString(gf))
GetGraphicField(gf) ==
    Directive("A", GetBinaryByteCount(gf), GetGraphicFieldCount(gf),
              GetBytesPerRow(gf), GetDataString(gf))

-----------------------------------------------------------------------------
(* zebrafy_zpl.py *)

Digits == {"0", "1", "2", "3", "4", "5", "6", "7", "8", "9"}

\* the first position from i on whose character is outside set (Len + 1 if none)
RunEnd(s, i, set) ==
    LET stops == {j \in i..Len(s) : s[j] \notin set}
    IN  IF stops = {} THEN (IF i > Len(s) THEN i ELSE Len(s) + 1)
        ELSE CHOOSE j \in stops : \A k \in stops : j <= k

\* ([1-9][0-9]*), at position i: the position after the comma, 0 when the
\* text does not match there
MatchCount(s, i) ==
    IF i > Len(s) \/ s[i] \notin (Digits \ {"0"}) THEN 0
    ELSE LET e == RunEnd(s, i + 1, Digits)
         IN  IF e <= Len(s) /\ s[e] = "," THEN e + 1 ELSE 0

\* (.*?(?=\^FS))\^FS at position i: the position of the first "^FS" that no
\* line break precedes, 0 when a line break or the end of the text comes first
MatchPayload(s, i) ==
    LET ends == {j \in i..(Len(s) - 2) : SubSeq(s, j, j + 2) = <<"^", "F", "S">>}
        first == CHOOSE j \in ends : \A k \in ends : j <= k
    IN  IF ends = {} THEN 0
        ELSE IF \E k \in i..(first - 1) : s[k] = "\n" THEN 0
        ELSE first

\* GF_MATCHER tried at position i: [ok, groups, next].  Every repetition is
\* followed by a character outside its class, so the greedy choice is the
\* only one that can match.
MatchAt(s, i) ==
    LET fail == [ok |-> FALSE, groups |-> <<>>, next |-> i + 1]
        a == i + 3
        b == RunEnd(s, a, {"A", "B", "C"})
        c == MatchCount(s, b + 1)
        d == IF c = 0 THEN 0 ELSE MatchCount(s, c)
        e == IF d = 0 THEN 0 ELSE MatchCount(s, d)
        f == IF e = 0 THEN 0 ELSE MatchPayload(s, e)
    IN  IF i + 2 > Len(s) \/ SubSeq(s, i, i + 2) # <<"^", "G", "F">> THEN fail
        ELSE IF b > Len(s) \/ s[b] # "," THEN fail
        ELSE IF f = 0 THEN fail
        ELSE [ok |-> TRUE,
              groups |-> <<SubSeq(s, a, b - 1), SubSeq(s, b + 1, c - 2),
                           SubSeq(s, c, d - 2), SubSeq(s, d, e - 2),
                           SubSeq(s, e, f - 1)>>,
              next |-> f + 3]

\* GF_MATCHER.findall(s) from position i on
RECURSIVE FindAllFrom(_, _)
FindAllFrom(s, i) ==
    LET starts == {j \in i..Len(s) : MatchAt(s, j).ok}
        m == MatchAt(s, CHOOSE j \in starts : \A k \in starts : j <= k)
    IN  IF starts = {} THEN <<>>
        ELSE <<m.groups>> \o FindAllFrom(s, m.next)

\* GF_MATCHER.findall(s)
FindAll(s) == FindAllFrom(s, 1)

\* ZebrafyZPL.zpl_data setter: the exception it raises, "none" when it stores d
ZplDataSetterExc(d) ==
    IF d.t = "NoneType" THEN "ValueError"
    ELSE IF d.t # "str" THEN "TypeError"
    ELSE "none"

\* ZebrafyZPL._match_dimensions: int(width * 8), int(total / width); the
\* float quotient is truncated
MatchDimensionsNoDivision(total, width) == <<width * 8, total>>
MatchDimensionsSwapped(total, width) == <<total * 8, width \div total>>
MatchDimensions(total, width) == <<width * 8, total \div width>>

\* the body of the loop without the comparison of the CRC
DecodeMatchNoCrc(match) ==
    LET size == MatchDimensions(ParseInt(match[3]), ParseInt(match[4]))
        compression_type == Upper(match[1])
        text == match[5]
        tagged == StartsWith(text, <<":", "Z", "6", "4">>)
                  \/ StartsWith(text, <<":", "B", "6", "4">>)
        zlib_compressed == StartsWith(text, <<":", "Z", "6", "4">>)
        crc == PySliceFrom(text, -4)
        inner == PySlice(text, 5, -5)
        decoded == B64Decode(inner)
        inflated == IF decoded.exc = "none" /\ zlib_compressed
                    THEN ZlibDecompress(decoded.bytes) ELSE decoded
        data == IF tagged THEN inflated ELSE FromHex(text)
    IN  IF compression_type # <<"A">>
        THEN [exc |-> "ValueError", msg |-> "compression", image |-> NoObject]
        ELSE IF tagged /\ ~IsAscii(inner)
        THEN [exc |-> "UnicodeEncodeError", msg |-> "encode", image |-> NoObject]
        ELSE IF data.exc # "none"
        THEN [exc |-> data.exc, msg |-> "decode", image |-> NoObject]
        ELSE LET r == FromBytes1(size, data.bytes)
             IN  [exc |-> r.exc, msg |-> IF r.exc = "none" THEN "" ELSE "frombytes",
                  image |-> r.image]

\* the body of the loop with the letters B and C accepted like A
DecodeMatchAnyLetter(match) ==
    LET size == MatchDimensions(ParseInt(match[3]), ParseInt(match[4]))
        compression_type == Upper(match[1])
        text == match[5]
        tagged == StartsWith(text, <<":", "Z", "6", "4">>)
                  \/ StartsWith(text, <<":", "B", "6", "4">>)
        zlib_compressed == StartsWith(text, <<":", "Z", "6", "4">>)
        crc == PySliceFrom(text, -4)
        inner == PySlice(text, 5, -5)
        decoded == B64Decode(inner)
        inflated == IF decoded.exc = "none" /\ zlib_compressed
                    THEN ZlibDecompress(decoded.bytes) ELSE decoded
        data == IF tagged THEN inflated ELSE FromHex(text)
    IN  IF compression_type \notin {<<"A">>, <<"B">>, <<"C">>}
        THEN [exc |-> "ValueError", msg |-> "compression", image |-> NoObject]
        ELSE IF tagged /\ ~IsAscii(inner)
        THEN [exc |-> "UnicodeEncodeError", msg |-> "encode", image |-> NoObject]
        ELSE IF tagged /\ crc # GetCrcHexString(EncodeAscii(inner), DefaultPoly)
        THEN [exc |-> "ValueError", msg |-> "crc", image |-> NoObject]
        ELSE IF data.exc # "none"
        THEN [exc |-> data.exc, msg |-> "decode", image |-> NoObject]
        ELSE LET r == FromBytes1(size, data.bytes)
             IN  [exc |-> r.exc, msg |-> IF r.exc = "none" THEN "" ELSE "frombytes",
                  image |-> r.image]
\* the body of the loop with an exception class of its own for the CRC
DecodeMatchCrcClass(match) ==
    LET size == MatchDimensions(ParseInt(match[3]), ParseInt(match[4]))
        compression_type == Upper(match[1])
        text == match[5]
        tagged == StartsWith(text, <<":", "Z", "6", "4">>)
                  \/ StartsWith(text, <<":", "B", "6", "4">>)
        zlib_compressed == StartsWith(text, <<":", "Z", "6", "4">>)
        crc == PySliceFrom(text, -4)
        inner == PySlice(text, 5, -5)
        decoded == B64Decode(inner)
        inflated == IF decoded.exc = "none" /\ zlib_compressed
                    THEN ZlibDecompress(decoded.bytes) ELSE decoded
        data == IF tagged THEN inflated ELSE FromHex(text)
    IN  IF compression_type # <<"A">>
        THEN [exc |-> "ValueError", msg |-> "compression", image |-> NoObject]
        ELSE IF tagged /\ ~IsAscii(inner)
        THEN [exc |-> "UnicodeEncodeError", msg |-> "encode", image |-> NoObject]
        ELSE IF tagged /\ crc # GetCrcHexString(EncodeAscii(inner), DefaultPoly)
        THEN [exc |-> "IntegrityError", msg |-> "crc", image |-> NoObject]
        ELSE IF data.exc # "none"
        THEN [exc |-> data.exc, msg |-> "decode", image |-> NoObject]
        ELSE LET r == FromBytes1(size, data.bytes)
             IN  [exc |-> r.exc, msg |-> IF r.exc = "none" THEN "" ELSE "frombytes",
                  image |-> r.image]
\* the body of the loop with the test of the letter after the decoding
DecodeMatchLetterLast(match) ==
    LET size == MatchDimensions(ParseInt(match[3]), ParseInt(match[4]))
        compression_type == Upper(match[1])
        text == match[5]
        tagged == StartsWith(text, <<":", "Z", "6", "4">>)
                  \/ StartsWith(text, <<":", "B", "6", "4">>)
        zlib_compressed == StartsWith(text, <<":", "Z", "6", "4">>)
        crc == PySliceFrom(text, -4)
        inner == PySlice(text, 5, -5)
        decoded == B64Decode(inner)
        inflated == IF decoded.exc = "none" /\ zlib_compressed
                    THEN ZlibDecompress(decoded.bytes) ELSE decoded
        data == IF tagged THEN inflated ELSE FromHex(text)
    IN  IF tagged /\ ~IsAscii(inner)
        THEN [exc |-> "UnicodeEncodeError", msg |-> "encode", image |-> NoObject]
        ELSE IF tagged /\ crc # GetCrcHexString(EncodeAscii(inner), DefaultPoly)
        THEN [exc |-> "ValueError", msg |-> "crc", image |-> NoObject]
        ELSE IF data.exc # "none"
        THEN [exc |-> data.exc, msg |-> "decode", image |-> NoObject]
        ELSE IF compression_type # <<"A">>
        THEN [exc |-> "ValueError", msg |-> "compression", image |-> NoObject]
        ELSE LET r == FromBytes1(size, data.bytes)
             IN  [exc |-> r.exc, msg |-> IF r.exc = "none" THEN "" ELSE "frombytes",
                  image |-> r.image]

\* the body of the loop of to_images for one match: [exc, msg, image], msg
\* naming the statement that raised
DecodeMatch(match) ==
    LET size == MatchDimensions(ParseInt(match[3]), ParseInt(match[4]))
        compression_type == Upper(match[1])
        text == match[5]
        tagged == StartsWith(text, <<":", "Z", "6", "4">>)
                  \/ StartsWith(text, <<":", "B", "6", "4">>)
        zlib_compressed == StartsWith(text, <<":", "Z", "6", "4">>)
        crc == PySliceFrom(text, -4)
        inner == PySlice(text, 5, -5)
        decoded == B64Decode(inner)
        inflated == IF decoded.exc = "none" /\ zlib_compressed
                    THEN ZlibDecompress(decoded.bytes) ELSE decoded
        data == IF tagged THEN inflated ELSE FromHex(text)
    IN  IF compression_type # <<"A">>
        THEN [exc |-> "ValueError", msg |-> "compression", image |-> NoObject]
        ELSE IF tagged /\ ~IsAscii(inner)
        THEN [exc |-> "UnicodeEncodeError", msg |-> "encode", image |-> NoObject]
        ELSE IF tagged /\ crc # GetCrcHexString(EncodeAscii(inner), DefaultPoly)
        THEN [exc |-> "ValueError", msg |-> "crc", image |-> NoObject]
        ELSE IF data.exc # "none"
        THEN [exc |-> data.exc, msg |-> "decode", image |-> NoObject]
        ELSE LET r == FromBytes1(size, data.bytes)
             IN  [exc |-> r.exc, msg |-> IF r.exc = "none" THEN "" ELSE "frombytes",
                  image |-> r.image]

\* the loop with each bitmap put in front of the list
RECURSIVE DecodeMatchesReversed(_, _, _)
DecodeMatchesReversed(matches, i, pil_images) ==
    IF i > Len(matches) THEN [exc |-> "none", msg |-> "", images |-> pil_images]
    ELSE LET r == DecodeMatch(matches[i])
         IN  IF r.exc # "none" THEN [exc |-> r.exc, msg |-> r.msg, images |-> <<>>]
             ELSE DecodeMatchesReversed(matches, i + 1, <<r.image>> \o pil_images)
\* the loop going on after a field that raised
RECURSIVE DecodeMatchesSkipping(_, _, _)
DecodeMatchesSkipping(matches, i, pil_images) ==
    IF i > Len(matches) THEN [exc |-> "none", msg |-> "", images |-> pil_images]
    ELSE LET r == DecodeMatch(matches[i])
         IN  IF r.exc # "none" THEN DecodeMatchesSkipping(matches, i + 1, pil_images)
             ELSE DecodeMatchesSkipping(matches, i + 1, Append(pil_images, r.image))
\* the loop of to_images over matches[i..]: it stops at the first exception
RECURSIVE DecodeMatches(_, _, _)
DecodeMatches(matches, i, pil_images) ==
    IF i > Len(matches) THEN [exc |-> "none", msg |-> "", images |-> pil_images]
    ELSE LET r == DecodeMatch(matches[i])
         IN  IF r.exc # "none" THEN [exc |-> r.exc, msg |-> r.msg, images |-> <<>>]
             ELSE DecodeMatches(matches, i + 1, Append(pil_images, r.image))

\* to_images without the test of matches
ToImagesEmptyList(zpl_data) ==
    DecodeMatches(FindAll(zpl_data), 1, <<>>)
\* ZebrafyZPL.to_images: [exc, msg, images]
ToImages(zpl_data) ==
    LET matches == FindAll(zpl_data)
    IN  IF matches = <<>>
        THEN [exc |-> "ValueError", msg |-> "no graphic field", images |-> <<>>]
        ELSE DecodeMatches(matches, 1, <<>>)

-----------------------------------------------------------------------------
(* The encoder and the parser as objects: a GraphicField is constructed    *)
(* and configured, get_graphic_field is called, a ZebrafyZPL is built on   *)
(* a text and to_images is called.  The two classes share no state, so the *)
(* encoder is left alone once a parser exists.                             *)

PyImage(i) == [t |-> "Image", v |-> i]

\* Image.new("1", (w, h)) painted as a checkerboard, the top left pixel set
Bitmap(w, h) ==
    [mode |-> "1", size |-> <<w, h>>,
     px |-> [y \in 1..h |-> [x \in 1..w |-> (x + y + 1) % 2]]]

\* Image.new("RGB", (w, h)): three zero samples per pixel
RgbImage(w, h) ==
    [mode |-> "RGB", size |-> <<w, h>>,
     px |-> [y \in 1..h |-> [x \in 1..(3 * w) |-> 0]]]

Bitmaps == {Bitmap(w, h) : w \in 1..MaxWidth, h \in 1..MaxHeight}
ColourImages == {RgbImage(w, 1) : w \in 1..MaxWidth}
Images == Bitmaps \cup ColourImages

PilImageInputs == {None, PyInt(123)} \cup {PyImage(i) : i \in Images}
\* the values assigned to pil_image after the construction
PilImageSetterInputs == {None, PyInt(123), PyImage(Bitmap(1, 1)), PyImage(RgbImage(1, 1))}
FormatInputs ==
    {None, PyInt(123), PyStr(ASCII), PyStr(B64), PyStr(Z64),
     PyStr(<<"z", "6", "4">>), PyStr(<<"D">>)}
CompressionTypeInputs ==
    {None, PyInt(123), PyStr(<<"A">>), PyStr(<<"B">>), PyStr(<<"C">>),
     PyStr(<<"a">>), PyStr(<<"b">>), PyStr(<<"c">>), PyStr(<<"D">>)}
StringLineBreakInputs ==
    {None, PyStr(<<"1", "2", "3">>), PyInt(-20), PyInt(0), PyInt(80)}
    \cup {PyInt(n) : n \in 1..MaxLineBreak}

\* the argument lists GraphicField is constructed with: every image with the
\* formats by name, and the smallest bitmaps with every combination of the
\* keyword arguments
GfInitInputs ==
    {<<i, None, f, None>> :
        i \in PilImageInputs, f \in {None, PyStr(ASCII), PyStr(B64), PyStr(Z64)}}
    \cup {<<PyImage(Bitmap(1, 1)), c, f, s>> :
            c \in CompressionTypeInputs, f \in FormatInputs,
            s \in StringLineBreakInputs}

GfInit ==
    /\ gf_obj = NoObject
    /\ gf_ret = NoObject
    /\ zpl_obj = NoObject
    /\ zpl_ret = NoObject

\* GraphicField(pil_image, compression_type, format, string_line_break).  A
\* constructor that raises leaves no instance, and the run ends there.
GF_init(i, c, f, s) ==
    /\ gf_obj = NoObject
    /\ exc = "none"
    /\ call' = [op |-> "GraphicField", pil_image |-> i, compression_type |-> c,
                format |-> f, string_line_break |-> s]
    /\ LET e1 == PilImageSetterExc(i)
           fmt == InitFormat(c, f)
           e2 == IF fmt.exc # "none" THEN fmt.exc ELSE FormatSetterExc(fmt.format)
           e3 == StringLineBreakSetterExc(s)
           e == IF e1 # "none" THEN e1 ELSE IF e2 # "none" THEN e2 ELSE e3
       IN  /\ exc' = e
           /\ gf_obj' = IF e = "none"
                        THEN [pil_image |-> i.v, format |-> fmt.format.v,
                              string_line_break |-> s]
                        ELSE NoObject
    /\ UNCHANGED <<gf_ret, zpl_obj, zpl_ret>>
    /\ UNCHANGED <<crc_vars, img_vars>>

\* gf.pil_image = i
GF_set_pil_image(i) ==
    /\ gf_obj # NoObject
    /\ zpl_obj = NoObject
    /\ call' = [op |-> "pil_image", value |-> i]
    /\ exc' = PilImageSetterExc(i)
    /\ IF PilImageSetterExc(i) = "none"
       THEN /\ gf_obj' = [gf_obj EXCEPT !.pil_image = i.v]
            /\ gf_ret' = NoObject
       ELSE UNCHANGED <<gf_obj, gf_ret>>
    /\ UNCHANGED <<zpl_obj, zpl_ret>>
    /\ UNCHANGED <<crc_vars, img_vars>>

\* gf.format = f
GF_set_format(f) ==
    /\ gf_obj # NoObject
    /\ zpl_obj = NoObject
    /\ call' = [op |-> "format", value |-> f]
    /\ exc' = FormatSetterExc(f)
    /\ IF FormatSetterExc(f) = "none"
       THEN /\ gf_obj' = [gf_obj EXCEPT !.format = f.v]
            /\ gf_ret' = NoObject
       ELSE UNCHANGED <<gf_obj, gf_ret>>
    /\ UNCHANGED <<zpl_obj, zpl_ret>>
    /\ UNCHANGED <<crc_vars, img_vars>>

\* gf.string_line_break = s
GF_set_string_line_break(s) ==
    /\ gf_obj # NoObject
    /\ zpl_obj = NoObject
    /\ call' = [op |-> "string_line_break", value |-> s]
    /\ exc' = StringLineBreakSetterExc(s)
    /\ IF StringLineBreakSetterExc(s) = "none"
       THEN /\ gf_obj' = [gf_obj EXCEPT !.string_line_break = s]
            /\ gf_ret' = NoObject
       ELSE UNCHANGED <<gf_obj, gf_ret>>
    /\ UNCHANGED <<zpl_obj, zpl_ret>>
    /\ UNCHANGED <<crc_vars, img_vars>>

\* gf.get_graphic_field()
GF_get_graphic_field ==
    /\ gf_obj # NoObject
    /\ zpl_obj = NoObject
    /\ gf_ret = NoObject
    /\ call' = [op |-> "get_graphic_field"]
    /\ exc' = "none"
    /\ gf_ret' = GetGraphicField(gf_obj)
    /\ UNCHANGED <<gf_obj, zpl_obj, zpl_ret>>
    /\ UNCHANGED <<crc_vars, img_vars>>

\* the texts a ZebrafyZPL is given: the directive just encoded
ZplDataInputs ==
    {None, PyInt(123)} \cup
    (IF gf_ret = NoObject THEN {} ELSE {PyStr(gf_ret.text)})

\* ZebrafyZPL(zpl_data), once the encoder has returned (or without one)
ZPL_init(d) ==
    /\ zpl_obj = NoObject
    /\ gf_obj = NoObject \/ gf_ret # NoObject
    /\ call' = [op |-> "ZebrafyZPL", zpl_data |-> d]
    /\ exc' = ZplDataSetterExc(d)
    /\ zpl_obj' = IF ZplDataSetterExc(d) = "none" THEN [zpl_data |-> d.v] ELSE NoObject
    /\ UNCHANGED <<gf_obj, gf_ret, zpl_ret>>
    /\ UNCHANGED <<crc_vars, img_vars>>

\* zpl.to_images()
ZPL_to_images ==
    /\ zpl_obj # NoObject
    /\ zpl_ret = NoObject
    /\ call' = [op |-> "to_images"]
    /\ \E r \in {ToImages(zpl_obj.zpl_data)} :
          /\ exc' = r.exc
          /\ zpl_ret' = [msg |-> r.msg, images |-> r.images]
    /\ UNCHANGED <<gf_obj, gf_ret, zpl_obj>>
    /\ UNCHANGED <<crc_vars, img_vars>>

GfNext ==
    \/ \E a \in GfInitInputs : GF_init(a[1], a[2], a[3], a[4])
    \/ \E i \in PilImageSetterInputs : GF_set_pil_image(i)
    \/ \E f \in FormatInputs : GF_set_format(f)
    \/ \E s \in StringLineBreakInputs : GF_set_string_line_break(s)
    \/ GF_get_graphic_field
    \/ \E d \in ZplDataInputs : ZPL_init(d)
    \/ ZPL_to_images

ImgInit ==
    /\ zf_ret = NoObject
    /\ zi_obj = NoObject
    /\ zi_ret = NoObject
    /\ pdf_obj = NoObject
    /\ pdf_ret = NoObject

Init ==
    /\ CrcInit
    /\ GfInit
    /\ ImgInit
    /\ call = [op |-> "none"]
    /\ exc = "none"

SpecCRC == Init /\ [][CrcNext]_vars

SpecGF == Init /\ [][GfNext]_vars

-----------------------------------------------------------------------------
(* The parser on documents that are not what the encoder returned: a       *)
(* directive with one character replaced, a directive whose header is      *)
(* written by hand, and labels that hold several directives.               *)

\* the directive get_graphic_field returns for the w x h bitmap in a format
Field(w, h, format) ==
    GetGraphicField([pil_image |-> Bitmap(w, h), format |-> format,
                     string_line_break |-> None])

\* a directive written by hand: "^GF", the letters, the three counts as they
\* are written, the data and "^FS"
GfText(letters, count, total, width, data) ==
    <<"^", "G", "F">> \o letters \o <<",">> \o count \o <<",">> \o total
    \o <<",">> \o width \o <<",">> \o data \o <<"^", "F", "S">>

\* tagged data whose CRC is that of its text: ":" tag ":" text ":" crc
Tagged(tag, text) ==
    <<":">> \o tag \o <<":">> \o text \o <<":">>
    \o GetCrcHexString(EncodeAscii(text), DefaultPoly)

\* the positions, in the text of directive d, of the Base64 text of its data
Base64Positions(d) ==
    LET start == Len(d.text) - 3 - Len(d.data)
    IN  (start + 6)..(start + Len(d.data) - 5)

\* the characters of the Base64 alphabet and the padding
Base64Chars == {Chr(B64Code(v)) : v \in 0..63} \cup {"="}

\* the characters put in the place of one character of a directive
TamperChars == Base64Chars \cup {" ", "!", "^", "\n", NonAscii}

\* the directives that are tampered with: the smallest and the largest
\* bitmap, in the two tagged formats
TamperedFields ==
    {Field(1, 1, B64), Field(MaxWidth, MaxHeight, B64),
     Field(1, 1, Z64), Field(MaxWidth, MaxHeight, Z64)}

\* a directive, a position of its Base64 text and a character other than
\* the one that is there
Tamperings ==
    UNION {{t \in {<<d, p, c>> : p \in Base64Positions(d), c \in TamperChars} :
                t[3] # d.text[t[2]]} : d \in TamperedFields}

\* the directive with the character replaced
TamperedText(t) == [t[1].text EXCEPT ![t[2]] = t[3]]

TamperedDocs == {TamperedText(t) : t \in Tamperings}

\* the bytes of a crafted image of t bytes: 0xAA, 0x55, 0xAA, ...
CraftedBytes(t) == [j \in 1..t |-> IF j % 2 = 1 THEN 170 ELSE 85]

\* ^GFA directives in hexadecimal whose total t is more than one row of w
\* bytes and no multiple of w, with the t bytes the header announces
NonDivisibleHeaders ==
    {tw \in (1..(((MaxWidth + 7) \div 8) * (MaxHeight + 1))) \X (2..((MaxWidth + 7) \div 8)) :
        tw[1] > tw[2] /\ tw[1] % tw[2] # 0}

NonDivisibleText(t, w) ==
    GfText(<<"A">>, FormatD(2 * t), FormatD(t), FormatD(w), BytesHex(CraftedBytes(t)))

NonDivisibleDocs == {NonDivisibleText(tw[1], tw[2]) : tw \in NonDivisibleHeaders}

\* the letters written after ^GF
LetterInputs == {<<>>, <<"A">>, <<"B">>, <<"C">>, <<"A", "A">>, <<"A", "B">>}

\* the directive of the w x h bitmap in a format, with other letters
LetterText(letters, w, h, format) ==
    LET d == Field(w, h, format)
    IN  GfText(letters, FormatD(d.binary_byte_count), FormatD(d.graphic_field_count),
               FormatD(d.bytes_per_row), d.data)

LetterDocs ==
    {LetterText(l, MaxWidth, MaxHeight, f) : l \in LetterInputs, f \in {ASCII, B64, Z64}}

\* data the decoding refuses: a text that is not hexadecimal, tagged data
\* with a CRC that is not its own, a Base64 text with one padding character
\* too few, the Base64 text of bytes that are no zlib stream, and a tagged
\* text with a character outside ASCII
BadPayloads ==
    {<<"z", "z">>,
     <<":", "B", "6", "4", ":", "g", "A", "=", "=", ":", "0", "0", "0", "0">>,
     Tagged(B64, <<"g", "A", "=">>),
     Tagged(Z64, DecodeAscii(B64Encode(<<1, 2, 3>>))),
     <<":", "B", "6", "4", ":", "g", NonAscii, "=", "=", ":", "0", "0", "0", "0">>}

\* directives of one byte in one row with such data, under every letter
BadPayloadText(letters, data) ==
    GfText(letters, FormatD(Len(data)), <<"1">>, <<"1">>, data)

BadPayloadDocs == {BadPayloadText(l, d) : l \in LetterInputs, d \in BadPayloads}

\* well-formed directives with three different bitmaps, one per format
GoodFields ==
    <<Field(1, 1, ASCII).text, Field(MaxWidth, 1, B64).text, Field(1, MaxHeight, Z64).text>>

\* directives GF_MATCHER matches whose data the codecs refuse: a
\* hexadecimal text with a letter z, a Base64 text with one padding character
\* too few and a matching CRC, and the Base64 text of three bytes that are no
\* zlib stream, with a matching CRC
BadHexText == GfText(<<"A">>, <<"2">>, <<"1">>, <<"1">>, <<"z", "z">>)
BadBase64Text ==
    GfText(<<"A">>, <<"1", "3">>, <<"1">>, <<"1">>, Tagged(B64, <<"g", "A", "=">>))
BadZlibText ==
    GfText(<<"A">>, <<"1", "4">>, <<"1">>, <<"1">>,
           Tagged(Z64, DecodeAscii(B64Encode(<<1, 2, 3>>))))

DecodeFailureDocs == {BadHexText, BadBase64Text, BadZlibText}

\* directives GF_MATCHER matches and the loop of to_images refuses: letter B,
\* a CRC that is not the one of the text, and the zlib failure
InvalidFields ==
    <<GfText(<<"B">>, <<"2">>, <<"1">>, <<"1">>, <<"8", "0">>),
      GfText(<<"A">>, <<"1", "4">>, <<"1">>, <<"1">>,
             <<":", "B", "6", "4", ":", "g", "A", "=", "=", ":", "0", "0", "0", "0">>),
      BadZlibText>>

\* ^GF...^FS occurrences GF_MATCHER does not match: letter D, a count of 0,
\* a count that is no number, and data broken across two lines
UnmatchedFields ==
    <<GfText(<<"D">>, <<"2">>, <<"1">>, <<"1">>, <<"8", "0">>),
      GfText(<<"A">>, <<"0">>, <<"1">>, <<"1">>, <<"8", "0">>),
      GfText(<<"A">>, <<"x">>, <<"1">>, <<"1">>, <<"8", "0">>),
      GfText(<<"A">>, <<"3">>, <<"1">>, <<"1">>, <<"8", "\n", "0">>)>>

\* the occurrences a label is put together from
LabelFields == GoodFields \o InvalidFields \o UnmatchedFields

\* a label as ZebrafyImage.to_zpl and the test of several images write it:
\* "^XA\n", then "^FO0,0", the occurrence and "\n" for each, then "^XZ\n"
LabelText(fields) ==
    <<"^", "X", "A", "\n">>
    \o Flatten([j \in 1..Len(fields) |->
                   <<"^", "F", "O", "0", ",", "0">> \o LabelFields[fields[j]] \o <<"\n">>])
    \o <<"^", "X", "Z", "\n">>

\* labels of up to MaxFields occurrences, each named by its index in
\* LabelFields, at most MaxBadFields of them not well-formed
Labels ==
    {fields \in SeqsUpTo(1..Len(LabelFields), MaxFields) :
        Cardinality({j \in 1..Len(fields) : fields[j] > Len(GoodFields)}) <= MaxBadFields}

LabelDocs == {LabelText(fields) : fields \in Labels}

\* texts without any ^GF...^FS
PlainDocs ==
    {<<>>, <<"^", "X", "A", "^", "X", "Z">>, <<"^", "G", "F">>, <<"^", "F", "S">>,
     <<"^", "G", "F", "A", ",", "2", ",", "1", ",", "1", ",", "8", "0">>}

\* the arguments ZebrafyZPL is constructed with
ZplDocInputs ==
    {None, PyInt(123)} \cup
    {PyStr(d) : d \in TamperedDocs \cup NonDivisibleDocs \cup LetterDocs
                      \cup BadPayloadDocs \cup DecodeFailureDocs \cup LabelDocs
                      \cup PlainDocs}

ZplNext ==
    \/ \E d \in ZplDocInputs : ZPL_init(d)
    \/ ZPL_to_images

SpecZPL == Init /\ [][ZplNext]_vars

-----------------------------------------------------------------------------
(* zebrafy.py: Zebrafy.zpl_to_image, the parser of the first directive of   *)
(* a text, run on the text a ZebrafyZPL holds once to_images has returned   *)
(* or raised.                                                               *)

A_COMPRESSION_PARAMS == {<<"A">>, <<"A", "S", "C", "I", "I">>}
B_COMPRESSION_PARAMS ==
    {<<"B">>, <<"B", "I", "N", "A", "R", "Y">>, <<"B", "6", "4">>,
     <<"B", "A", "S", "E", "6", "4">>}

\* GF_MATCHER.search(s): [ok, groups], the groups of the leftmost match
Search(s) ==
    CHOOSE r \in
        {IF starts = {} THEN [ok |-> FALSE, groups |-> <<>>]
         ELSE [ok |-> TRUE,
               groups |-> MatchAt(s, CHOOSE j \in starts : \A k \in starts : j <= k).groups] :
            starts \in {{j \in 1..Len(s) : MatchAt(s, j).ok}}} : TRUE

\* Zebrafy._match_dimensions: int(width * 8), int(total / width)
ZebrafyMatchDimensions(total, width) == <<width * 8, total \div width>>

\* Zebrafy.zpl_to_image(zpl): [exc, msg, image].  A letter sequence that is in
\* neither list leaves image_bytes unbound, and reading it raises
\* UnboundLocalError; base64.b64decode refuses a str with a character
\* outside ASCII with ValueError.
ZplToImageMatch(match) ==
    LET size == ZebrafyMatchDimensions(ParseInt(match.groups[3]), ParseInt(match.groups[4]))
        compression_type == match.groups[1]
        image_string == match.groups[5]
        image_bytes ==
            IF Upper(compression_type) \in A_COMPRESSION_PARAMS THEN FromHex(image_string)
            ELSE IF Upper(compression_type) \in B_COMPRESSION_PARAMS
            THEN (IF IsAscii(image_string) THEN B64Decode(image_string)
                  ELSE [exc |-> "ValueError", bytes |-> <<>>])
            ELSE [exc |-> "UnboundLocalError", bytes |-> <<>>]
    IN  IF ~match.ok
        THEN [exc |-> "ValueError", msg |-> "no image", image |-> NoObject]
        ELSE CHOOSE r \in
            {IF decoded.exc = "UnboundLocalError"
             THEN [exc |-> "UnboundLocalError", msg |-> "unbound", image |-> NoObject]
             ELSE IF decoded.exc # "none"
             THEN [exc |-> decoded.exc, msg |-> "decode", image |-> NoObject]
             ELSE CHOOSE q \in
                 {IF image.exc # "none"
                  THEN [exc |-> image.exc, msg |-> "frombytes", image |-> NoObject]
                  ELSE [exc |-> "none", msg |-> "", image |-> image.image] :
                     image \in {FromBytes1(size, decoded.bytes)}} : TRUE :
                decoded \in {image_bytes}} : TRUE

ZplToImage(zpl) == CHOOSE r \in {ZplToImageMatch(match) : match \in {Search(zpl)}} : TRUE

\* Zebrafy.zpl_to_image(zpl.zpl_data), after zpl.to_images()
ZF_zpl_to_image ==
    /\ zpl_obj # NoObject
    /\ zpl_ret # NoObject
    /\ zf_ret = NoObject
    /\ call' = [op |-> "zpl_to_image"]
    /\ \E r \in {ZplToImage(zpl_obj.zpl_data)} :
          /\ exc' = r.exc
          /\ zf_ret' = [msg |-> r.msg, image |-> r.image]
    /\ UNCHANGED <<gf_vars, zi_obj, zi_ret, pdf_obj, pdf_ret>>
    /\ UNCHANGED crc_vars

FirstNext ==
    \/ \E d \in ZplDocInputs : ZPL_init(d)
    \/ ZPL_to_images
    \/ ZF_zpl_to_image

SpecFirst == Init /\ [][FirstNext]_vars

-----------------------------------------------------------------------------
(* zebrafy_image.py.  The images are 1-bit bitmaps; the operations of PIL   *)
(* that to_zpl calls are modelled on them: rotate without expansion,        *)
(* resize with the nearest-neighbour filter PIL uses for mode "1", convert  *)
(* and point.  Image bytes are the bytes of an image file, modelled by the  *)
(* image Image.open reads from them.                                        *)

\* the bytes of a file holding the image i, and the empty bytes
FileBytes(i) == [t |-> "bytes", v |-> <<i>>]
EmptyBytes == [t |-> "bytes", v |-> <<>>]

\* ZebrafyImage.image setter
ImageSetterExc(i) ==
    IF ~Truthy(i) THEN "ValueError"
    ELSE IF i.t \notin {"bytes", "Image"} THEN "TypeError"
    ELSE "none"

\* the setters of invert, dither and complete_zpl
BoolSetterExc(b) ==
    IF b.t = "NoneType" THEN "ValueError"
    ELSE IF b.t # "bool" THEN "TypeError"
    ELSE "none"

\* ZebrafyImage.threshold setter
ThresholdSetterExc(t) ==
    IF t.t = "NoneType" THEN "ValueError"
    ELSE IF ~IsInt(t) THEN "TypeError"
    ELSE IF IntValue(t) < 0 \/ IntValue(t) > 255 THEN "ValueError"
    ELSE "none"

\* the setters of width, height, pos_x and pos_y
IntSetterExc(n) ==
    IF n.t = "NoneType" THEN "ValueError"
    ELSE IF ~IsInt(n) THEN "TypeError"
    ELSE "none"

\* ZebrafyImage.rotation setter; True == 1 and False == 0 are compared by
\* value with the members of the list
RotationSetterExc(r) ==
    IF r.t = "NoneType" THEN "ValueError"
    ELSE IF ~IsInt(r) THEN "TypeError"
    ELSE IF IntValue(r) \notin {0, 90, 180, 270} THEN "ValueError"
    ELSE "none"

\* the first exception of a sequence of outcomes, "none" without one
FirstExc(outcomes) ==
    LET raised == {k \in 1..Len(outcomes) : outcomes[k] # "none"}
    IN  IF raised = {} THEN "none"
        ELSE outcomes[CHOOSE k \in raised : \A j \in raised : k <= j]

\* the argument v, or the default d for None
OrDefault(v, d) == IF v.t = "NoneType" THEN d ELSE v

\* ZebrafyImage.__init__(image, compression_type, format, ...) on the record
\* a of its arguments: [exc, obj]; the setters run in the order of the
\* statements and the first exception ends the construction
ZebrafyImageInit(a) ==
    LET fmt == InitFormat(a.compression_type, a.format)
        obj == [image |-> a.image,
                format |-> fmt.format.v,
                invert |-> OrDefault(a.invert, PyBool(FALSE)),
                dither |-> OrDefault(a.dither, PyBool(TRUE)),
                threshold |-> OrDefault(a.threshold, PyInt(128)),
                width |-> OrDefault(a.width, PyInt(0)),
                height |-> OrDefault(a.height, PyInt(0)),
                pos_x |-> OrDefault(a.pos_x, PyInt(0)),
                pos_y |-> OrDefault(a.pos_y, PyInt(0)),
                rotation |-> OrDefault(a.rotation, PyInt(0)),
                string_line_break |-> a.string_line_break,
                complete_zpl |-> OrDefault(a.complete_zpl, PyBool(TRUE))]
        e == FirstExc(<<ImageSetterExc(a.image),
                        IF fmt.exc # "none" THEN fmt.exc ELSE FormatSetterExc(fmt.format),
                        BoolSetterExc(obj.invert),
                        BoolSetterExc(obj.dither),
                        ThresholdSetterExc(obj.threshold),
                        IntSetterExc(obj.width),
                        IntSetterExc(obj.height),
                        IntSetterExc(obj.pos_x),
                        IntSetterExc(obj.pos_y),
                        RotationSetterExc(obj.rotation),
                        StringLineBreakSetterExc(a.string_line_break),
                        BoolSetterExc(obj.complete_zpl)>>)
    IN  [exc |-> e, obj |-> IF e = "none" THEN obj ELSE NoObject]

\* the setter of the property named p
ImagePropertySetterExc(p, v) ==
    CASE p = "image" -> ImageSetterExc(v)
      [] p = "format" -> FormatSetterExc(v)
      [] p \in {"invert", "dither", "complete_zpl"} -> BoolSetterExc(v)
      [] p = "threshold" -> ThresholdSetterExc(v)
      [] p \in {"width", "height", "pos_x", "pos_y"} -> IntSetterExc(v)
      [] p = "rotation" -> RotationSetterExc(v)
      [] p = "string_line_break" -> StringLineBreakSetterExc(v)

\* what a setter stores: the name of the format as text, the value otherwise
Stored(p, v) == IF p = "format" THEN v.v ELSE v

\* Image.open(BytesIO(image)) for bytes, the image itself otherwise
Open(image) == IF image.t = "bytes" THEN image.v[1] ELSE image.v

\* the pixel of column x, row y (from 0) of img, 0 outside the image
PixelAt(img, x, y) ==
    IF x >= 0 /\ x < img.size[1] /\ y >= 0 /\ y < img.size[2]
    THEN img.px[y + 1][x + 1] ELSE 0

\* Image.rotate(angle, expand=False), counter-clockwise about the centre and
\* into an image of the same size: the pixel of the output at (x, y) is read
\* from the input at the rotated position of its centre (x + 1/2, y + 1/2),
\* computed here in halves; positions outside the input give 0
Rotate(img, angle) ==
    LET w == img.size[1]
        h == img.size[2]
        sx(x, y) == CASE angle = 90 -> (h + w) - (2 * y + 1)
                      [] angle = 180 -> 2 * w - (2 * x + 1)
                      [] angle = 270 -> (2 * y + 1) + (w - h)
        sy(x, y) == CASE angle = 90 -> (2 * x + 1) + (h - w)
                      [] angle = 180 -> 2 * h - (2 * y + 1)
                      [] angle = 270 -> (w + h) - (2 * x + 1)
    IN  [mode |-> img.mode, size |-> img.size,
         px |-> [y \in 1..h |-> [x \in 1..w |->
                    IF sx(x - 1, y - 1) < 0 \/ sy(x - 1, y - 1) < 0 THEN 0
                    ELSE PixelAt(img, sx(x - 1, y - 1) \div 2, sy(x - 1, y - 1) \div 2)]]]

\* Image.resize((w, h)) in mode "1": [exc, image].  A size below 1 is
\* refused; the pixel at (x, y) is the input's at the scaled position of its
\* centre.
Resize(img, w, h) ==
    IF w < 1 \/ h < 1 THEN [exc |-> "ValueError", image |-> NoObject]
    ELSE [exc |-> "none",
          image |-> [mode |-> img.mode, size |-> <<w, h>>,
                     px |-> [y \in 1..h |-> [x \in 1..w |->
                        PixelAt(img, ((2 * x - 1) * img.size[1]) \div (2 * w),
                                     ((2 * y - 1) * img.size[2]) \div (2 * h))]]]]

\* lines 296-309: convert("1") and the inversion, or convert("L") and the
\* comparison of each sample (0 or 255) with the threshold
Convert(img, dither, threshold, invert) ==
    LET point(v) ==
            IF dither THEN (IF invert THEN 1 - v ELSE v)
            ELSE IF 255 * v > threshold THEN (IF invert THEN 0 ELSE 1)
            ELSE (IF invert THEN 1 ELSE 0)
    IN  [mode |-> "1", size |-> img.size,
         px |-> [y \in 1..img.size[2] |-> [x \in 1..img.size[1] |-> point(img.px[y][x])]]]

\* str(n) for an int or a bool
Str(n) ==
    IF n.t = "bool" THEN (IF n.v THEN <<"T", "r", "u", "e">> ELSE <<"F", "a", "l", "s", "e">>)
    ELSE IF n.v < 0 THEN <<"-">> \o FormatD(0 - n.v)
    ELSE FormatD(n.v)

\* the image to_zpl hands to GraphicField: [exc, image]
Processed(zi) ==
    LET opened == Open(zi.image)
        rotated == IF Truthy(zi.rotation) THEN Rotate(opened, IntValue(zi.rotation))
                   ELSE opened
        width == IF Truthy(zi.width) THEN IntValue(zi.width) ELSE rotated.size[1]
        height == IF Truthy(zi.height) THEN IntValue(zi.height) ELSE rotated.size[2]
        resized == IF Truthy(zi.width) \/ Truthy(zi.height)
                   THEN Resize(rotated, width, height)
                   ELSE [exc |-> "none", image |-> rotated]
    IN  IF resized.exc # "none" THEN resized
        ELSE [exc |-> "none",
              image |-> Convert(resized.image, zi.dither.v, IntValue(zi.threshold),
                                zi.invert.v)]

\* the position without the test of pos_x and pos_y
PositionAlwaysZero(zi) == <<"^", "F", "O", "0", ",", "0">>
\* lines 316-318: "^FO0,0", or "^FO<pos_x>,<pos_y>" when one of them is not 0
Position(zi) ==
    IF Truthy(zi.pos_x) \/ Truthy(zi.pos_y)
    THEN <<"^", "F", "O">> \o Str(zi.pos_x) \o <<",">> \o Str(zi.pos_y)
    ELSE <<"^", "F", "O", "0", ",", "0">>

\* ZebrafyImage.to_zpl: [exc, text]
ImageToZpl(zi) ==
    LET image == Processed(zi)
        graphic_field == [pil_image |-> image.image, format |-> zi.format,
                          string_line_break |-> zi.string_line_break]
    IN  IF image.exc # "none" THEN [exc |-> image.exc, text |-> <<>>]
        ELSE IF zi.complete_zpl.v
        THEN [exc |-> "none",
              text |-> <<"^", "X", "A", "\n">> \o Position(zi)
                       \o GetGraphicField(graphic_field).text
                       \o <<"\n", "^", "X", "Z", "\n">>]
        ELSE [exc |-> "none",
              text |-> Position(zi) \o GetGraphicField(graphic_field).text]

\* the bytes of a PDF file, modelled by its pages, each page by the bitmap
\* pdfium renders at 72 dpi without rotation
PdfBytes(pages) == [t |-> "bytes", v |-> <<pages>>]

\* the documents of up to MaxPages pages, page k being k pixels wide, and
\* the longest of them with its pages in the opposite order
PdfDocs ==
    {[k \in 1..n |-> Bitmap(k, 1)] : n \in 0..MaxPages}
    \cup {[k \in 1..MaxPages |-> Bitmap(MaxPages + 1 - k, 1)]}

\* the properties of a ZebrafyImage in the order __init__ assigns them
ImageProperties ==
    {"image", "format", "invert", "dither", "threshold", "width", "height",
     "pos_x", "pos_y", "rotation", "string_line_break", "complete_zpl"}

NotANumber == PyStr(<<"1", "2", "3">>)

\* the values handed to the constructor and to the setter of each property
ValueInputs(p) ==
    CASE p = "image" ->
            {None, PyInt(123), EmptyBytes, PyImage(Bitmap(1, 1)), PyImage(Bitmap(2, 2)),
             PyImage(Bitmap(MaxWidth, MaxHeight)), FileBytes(Bitmap(2, 2))}
      [] p = "compression_type" -> CompressionTypeInputs
      [] p = "format" -> FormatInputs
      [] p \in {"invert", "dither", "complete_zpl", "split_pages"} ->
            {None, PyInt(1), PyBool(TRUE), PyBool(FALSE)}
      [] p = "threshold" ->
            {None, NotANumber, PyInt(-1), PyInt(0), PyInt(255), PyInt(256), PyBool(TRUE)}
      [] p = "width" -> {None, NotANumber, PyInt(-1), PyInt(0), PyInt(2), PyInt(4)}
      [] p = "height" -> {None, NotANumber, PyInt(-1), PyInt(1), PyInt(4)}
      [] p = "pos_x" -> {None, NotANumber, PyInt(-1), PyInt(0), PyInt(5)}
      [] p = "pos_y" -> {None, NotANumber, PyInt(0), PyInt(7)}
      [] p = "rotation" ->
            {None, NotANumber, PyInt(45), PyInt(360), PyInt(0), PyInt(90), PyInt(180),
             PyInt(270)}
      [] p = "string_line_break" -> StringLineBreakInputs
      [] p = "pdf_bytes" -> {None, PyInt(123), EmptyBytes} \cup {PdfBytes(d) : d \in PdfDocs}
      [] p = "dpi" ->
            {None, NotANumber, PyInt(-72), PyInt(0), PyInt(1), PyInt(144), PyInt(720),
             PyInt(721)}

\* ZebrafyImage(image) with every other argument left out
ImageArgs(image) ==
    [image |-> image, compression_type |-> None, format |-> None, invert |-> None,
     dither |-> None, threshold |-> None, width |-> None, height |-> None,
     pos_x |-> None, pos_y |-> None, rotation |-> None, string_line_break |-> None,
     complete_zpl |-> None]

\* the argument lists ZebrafyImage is constructed with: every image alone,
\* the largest bitmap with one more argument, the positions with and without
\* the label in every format, and the ways of processing the image
ZebrafyImageInputs ==
    {ImageArgs(i) : i \in ValueInputs("image")}
    \cup UNION {{[ImageArgs(PyImage(Bitmap(MaxWidth, MaxHeight))) EXCEPT ![p] = v] :
                    v \in ValueInputs(p)} :
                  p \in (ImageProperties \ {"image"}) \cup {"compression_type"}}
    \cup {[ImageArgs(PyImage(Bitmap(2, 2))) EXCEPT
              !.pos_x = PyInt(x), !.pos_y = PyInt(y), !.complete_zpl = PyBool(c),
              !.format = PyStr(f)] :
            x \in {0, 5}, y \in {0, 7}, c \in BOOLEAN, f \in {ASCII, B64, Z64}}
    \cup {[ImageArgs(PyImage(Bitmap(MaxWidth, MaxHeight))) EXCEPT
              !.rotation = PyInt(r), !.invert = PyBool(i), !.dither = PyBool(d),
              !.threshold = PyInt(t)] :
            r \in {0, 90, 180, 270}, i \in BOOLEAN, d \in BOOLEAN, t \in {128, 255}}

\* ZebrafyImage(**a).  A constructor that raises leaves no instance, and the
\* run ends there.
ZI_init(a) ==
    /\ zi_obj = NoObject
    /\ exc = "none"
    /\ call' = [op |-> "ZebrafyImage", args |-> a]
    /\ exc' = ZebrafyImageInit(a).exc
    /\ zi_obj' = ZebrafyImageInit(a).obj
    /\ UNCHANGED <<zf_ret, zi_ret, pdf_obj, pdf_ret>>
    /\ UNCHANGED <<crc_vars, gf_vars>>

\* the assignment storing the value before the setter tests it
ZI_setStoreFirst(p, v) ==
    /\ zi_obj # NoObject
    /\ zi_ret = NoObject
    /\ call.op = "ZebrafyImage" \/ exc # "none"
    /\ call' = [op |-> "ZebrafyImage.set", property |-> p, value |-> v]
    /\ exc' = ImagePropertySetterExc(p, v)
    /\ zi_obj' = [zi_obj EXCEPT ![p] = Stored(p, v)]
    /\ UNCHANGED <<zf_ret, zi_ret, pdf_obj, pdf_ret>>
    /\ UNCHANGED <<crc_vars, gf_vars>>
\* zi.<p> = v, on an instance nothing has been assigned to with success
ZI_set(p, v) ==
    /\ zi_obj # NoObject
    /\ zi_ret = NoObject
    /\ call.op = "ZebrafyImage" \/ exc # "none"
    /\ call' = [op |-> "ZebrafyImage.set", property |-> p, value |-> v]
    /\ exc' = ImagePropertySetterExc(p, v)
    /\ IF ImagePropertySetterExc(p, v) = "none"
       THEN zi_obj' = [zi_obj EXCEPT ![p] = Stored(p, v)]
       ELSE UNCHANGED zi_obj
    /\ UNCHANGED <<zf_ret, zi_ret, pdf_obj, pdf_ret>>
    /\ UNCHANGED <<crc_vars, gf_vars>>

\* zi.to_zpl()
ZI_to_zpl ==
    /\ zi_obj # NoObject
    /\ zi_ret = NoObject
    /\ call' = [op |-> "ZebrafyImage.to_zpl"]
    /\ \E r \in {ImageToZpl(zi_obj)} :
          /\ exc' = r.exc
          /\ zi_ret' = [text |-> r.text]
    /\ UNCHANGED <<zf_ret, zi_obj, pdf_obj, pdf_ret>>
    /\ UNCHANGED <<crc_vars, gf_vars>>

ImageNext ==
    \/ \E a \in ZebrafyImageInputs : ZI_init(a)
    \/ \E p \in ImageProperties : \E v \in ValueInputs(p) : ZI_set(p, v)
    \/ ZI_to_zpl

SpecImage == Init /\ [][ImageNext]_vars

-----------------------------------------------------------------------------
(* zebrafy_pdf.py.  PdfDocument and page.render belong to pypdfium2; a      *)
(* page is rendered by scaling its bitmap by dpi / 72 and turning it        *)
(* clockwise by the rotation.                                               *)

\* ZebrafyPDF.pdf_bytes setter
PdfBytesSetterExc(b) ==
    IF ~Truthy(b) THEN "ValueError"
    ELSE IF b.t # "bytes" THEN "TypeError"
    ELSE "none"

\* the dpi setter without the test of the upper limit
DpiSetterExcNoLimit(d) ==
    IF d.t = "NoneType" THEN "ValueError"
    ELSE IF ~IsInt(d) THEN "TypeError"
    ELSE IF IntValue(d) <= 0 THEN "ValueError"
    ELSE "none"
\* ZebrafyPDF.dpi setter
DpiSetterExc(d) ==
    IF d.t = "NoneType" THEN "ValueError"
    ELSE IF ~IsInt(d) THEN "TypeError"
    ELSE IF IntValue(d) <= 0 THEN "ValueError"
    ELSE IF IntValue(d) > 720 THEN "ValueError"
    ELSE "none"

\* ZebrafyPDF.__init__ on the record a of its arguments: [exc, obj]
ZebrafyPDFInit(a) ==
    LET fmt == InitFormat(a.compression_type, a.format)
        obj == [pdf_bytes |-> a.pdf_bytes,
                format |-> fmt.format.v,
                invert |-> OrDefault(a.invert, PyBool(FALSE)),
                dither |-> OrDefault(a.dither, PyBool(TRUE)),
                threshold |-> OrDefault(a.threshold, PyInt(128)),
                dpi |-> OrDefault(a.dpi, PyInt(72)),
                width |-> OrDefault(a.width, PyInt(0)),
                height |-> OrDefault(a.height, PyInt(0)),
                pos_x |-> OrDefault(a.pos_x, PyInt(0)),
                pos_y |-> OrDefault(a.pos_y, PyInt(0)),
                rotation |-> OrDefault(a.rotation, PyInt(0)),
                string_line_break |-> a.string_line_break,
                split_pages |-> OrDefault(a.split_pages, PyBool(FALSE)),
                complete_zpl |-> OrDefault(a.complete_zpl, PyBool(TRUE))]
        e == FirstExc(<<PdfBytesSetterExc(a.pdf_bytes),
                        IF fmt.exc # "none" THEN fmt.exc ELSE FormatSetterExc(fmt.format),
                        BoolSetterExc(obj.invert),
                        BoolSetterExc(obj.dither),
                        ThresholdSetterExc(obj.threshold),
                        DpiSetterExc(obj.dpi),
                        IntSetterExc(obj.width),
                        IntSetterExc(obj.height),
                        IntSetterExc(obj.pos_x),
                        IntSetterExc(obj.pos_y),
                        RotationSetterExc(obj.rotation),
                        StringLineBreakSetterExc(a.string_line_break),
                        BoolSetterExc(obj.split_pages),
                        BoolSetterExc(obj.complete_zpl)>>)
    IN  [exc |-> e, obj |-> IF e = "none" THEN obj ELSE NoObject]

\* the setter of the property named p; the setters ZebrafyPDF shares with
\* ZebrafyImage have the same statements
PdfPropertySetterExc(p, v) ==
    CASE p = "pdf_bytes" -> PdfBytesSetterExc(v)
      [] p = "dpi" -> DpiSetterExc(v)
      [] p = "split_pages" -> BoolSetterExc(v)
      [] OTHER -> ImagePropertySetterExc(p, v)

\* the image turned clockwise by a quarter turn, its sides exchanged
QuarterTurn(img) ==
    [mode |-> img.mode, size |-> <<img.size[2], img.size[1]>>,
     px |-> [y \in 1..img.size[1] |-> [x \in 1..img.size[2] |->
                img.px[img.size[2] + 1 - x][y]]]]

\* page.render(scale=dpi / 72, rotation=rotation).to_pil(): the bitmap of
\* the page with each side multiplied by the scale and rounded up, turned
\* clockwise by the rotation
Render(page, dpi, rotation) ==
    LET w == (page.size[1] * dpi + 71) \div 72
        h == (page.size[2] * dpi + 71) \div 72
        scaled == IF dpi = 72 THEN page ELSE Resize(page, w, h).image
    IN  CASE rotation = 0 -> scaled
          [] rotation = 90 -> QuarterTurn(scaled)
          [] rotation = 180 -> QuarterTurn(QuarterTurn(scaled))
          [] rotation = 270 -> QuarterTurn(QuarterTurn(QuarterTurn(scaled)))

\* lines 315-332 for one page: [exc, text], the text of the page followed by
\* a line break
PageToZpl(pdf, page) ==
    LET pil_image == Render(page, IntValue(pdf.dpi), IntValue(pdf.rotation))
        zebrafy_image ==
            ZebrafyImageInit([image |-> PyImage(pil_image), compression_type |-> None,
                              format |-> PyStr(pdf.format), invert |-> pdf.invert,
                              dither |-> pdf.dither, threshold |-> pdf.threshold,
                              width |-> pdf.width, height |-> pdf.height,
                              pos_x |-> pdf.pos_x, pos_y |-> pdf.pos_y,
                              rotation |-> PyInt(0),
                              string_line_break |-> pdf.string_line_break,
                              complete_zpl |-> PyBool(FALSE)])
        page_zpl == ImageToZpl(zebrafy_image.obj)
    IN  IF zebrafy_image.exc # "none" THEN [exc |-> zebrafy_image.exc, text |-> <<>>]
        ELSE IF page_zpl.exc # "none" THEN page_zpl
        ELSE [exc |-> "none", text |-> Append(page_zpl.text, "\n")]

\* the pages in the opposite order
JoinPagesReversed(pdf, graphic_fields) ==
    LET n == Len(graphic_fields)
        reversed == [k \in 1..n |-> graphic_fields[n + 1 - k]]
    IN  IF pdf.complete_zpl.v
        THEN IF pdf.split_pages.v
             THEN Flatten([k \in 1..n |->
                     <<"^", "X", "A", "\n">> \o reversed[k] \o <<"^", "X", "Z", "\n">>])
             ELSE <<"^", "X", "A", "\n">> \o Flatten(reversed) \o <<"^", "X", "Z", "\n">>
        ELSE Flatten(reversed)
\* lines 336-346: the texts of the pages joined into the text to_zpl returns
JoinPages(pdf, graphic_fields) ==
    IF pdf.complete_zpl.v
    THEN IF pdf.split_pages.v
         THEN Flatten([k \in 1..Len(graphic_fields) |->
                 <<"^", "X", "A", "\n">> \o graphic_fields[k] \o <<"^", "X", "Z", "\n">>])
         ELSE <<"^", "X", "A", "\n">> \o Flatten(graphic_fields) \o <<"^", "X", "Z", "\n">>
    ELSE Flatten(graphic_fields)

\* ZebrafyPDF.to_zpl: [exc, text]; the first page that raises ends the call
PdfToZpl(pdf) ==
    LET pages == pdf.pdf_bytes.v[1]
        converted == [k \in 1..Len(pages) |-> PageToZpl(pdf, pages[k])]
    IN  [exc |-> FirstExc([k \in 1..Len(pages) |-> converted[k].exc]),
         text |-> IF FirstExc([k \in 1..Len(pages) |-> converted[k].exc]) # "none"
                  THEN <<>>
                  ELSE JoinPages(pdf, [k \in 1..Len(pages) |-> converted[k].text])]

\* the properties of a ZebrafyPDF
PdfProperties ==
    (ImageProperties \ {"image"}) \cup {"pdf_bytes", "dpi", "split_pages"}

\* ZebrafyPDF(pdf_bytes) with every other argument left out
PdfArgs(pdf_bytes) ==
    [pdf_bytes |-> pdf_bytes, compression_type |-> None, format |-> None,
     invert |-> None, dither |-> None, threshold |-> None, dpi |-> None,
     width |-> None, height |-> None, pos_x |-> None, pos_y |-> None,
     rotation |-> None, string_line_break |-> None, split_pages |-> None,
     complete_zpl |-> None]

\* the document of MaxPages pages
LongestDoc == PdfBytes([k \in 1..MaxPages |-> Bitmap(k, 1)])

\* the argument lists ZebrafyPDF is constructed with: every document alone,
\* the longest with one more argument, and every document with and without
\* labels, split and not
ZebrafyPDFInputs ==
    {PdfArgs(b) : b \in ValueInputs("pdf_bytes")}
    \cup UNION {{[PdfArgs(LongestDoc) EXCEPT ![p] = v] : v \in ValueInputs(p)} :
                  p \in (PdfProperties \ {"pdf_bytes"}) \cup {"compression_type"}}
    \cup {[PdfArgs(PdfBytes(d)) EXCEPT
              !.split_pages = PyBool(s), !.complete_zpl = PyBool(c), !.format = PyStr(f)] :
            d \in PdfDocs, s \in BOOLEAN, c \in BOOLEAN, f \in {ASCII, Z64}}

\* ZebrafyPDF(**a).  A constructor that raises leaves no instance, and the
\* run ends there.
PDF_init(a) ==
    /\ pdf_obj = NoObject
    /\ exc = "none"
    /\ call' = [op |-> "ZebrafyPDF", args |-> a]
    /\ exc' = ZebrafyPDFInit(a).exc
    /\ pdf_obj' = ZebrafyPDFInit(a).obj
    /\ UNCHANGED <<zf_ret, zi_obj, zi_ret, pdf_ret>>
    /\ UNCHANGED <<crc_vars, gf_vars>>

\* pdf.<p> = v, on an instance nothing has been assigned to with success
PDF_set(p, v) ==
    /\ pdf_obj # NoObject
    /\ pdf_ret = NoObject
    /\ call.op = "ZebrafyPDF" \/ exc # "none"
    /\ call' = [op |-> "ZebrafyPDF.set", property |-> p, value |-> v]
    /\ exc' = PdfPropertySetterExc(p, v)
    /\ IF PdfPropertySetterExc(p, v) = "none"
       THEN pdf_obj' = [pdf_obj EXCEPT ![p] = Stored(p, v)]
       ELSE UNCHANGED pdf_obj
    /\ UNCHANGED <<zf_ret, zi_obj, zi_ret, pdf_ret>>
    /\ UNCHANGED <<crc_vars, gf_vars>>

\* pdf.to_zpl()
PDF_to_zpl ==
    /\ pdf_obj # NoObject
    /\ pdf_ret = NoObject
    /\ call' = [op |-> "ZebrafyPDF.to_zpl"]
    /\ \E r \in {PdfToZpl(pdf_obj)} :
          /\ exc' = r.exc
          /\ pdf_ret' = [text |-> r.text]
    /\ UNCHANGED <<zf_ret, zi_obj, zi_ret, pdf_obj>>
    /\ UNCHANGED <<crc_vars, gf_vars>>

PdfNext ==
    \/ \E a \in ZebrafyPDFInputs : PDF_init(a)
    \/ \E p \in PdfProperties : \E v \in ValueInputs(p) : PDF_set(p, v)
    \/ PDF_to_zpl

SpecPDF == Init /\ [][PdfNext]_vars

-----------------------------------------------------------------------------
(* The constructors and the property setters of the five classes, one       *)
(* class in each behaviour.                                                 *)

\* zpl.zpl_data = d
ZPL_set_zpl_data(d) ==
    /\ zpl_obj # NoObject
    /\ zpl_ret = NoObject
    /\ call' = [op |-> "zpl_data", value |-> d]
    /\ exc' = ZplDataSetterExc(d)
    /\ IF ZplDataSetterExc(d) = "none"
       THEN zpl_obj' = [zpl_obj EXCEPT !.zpl_data = d.v]
       ELSE UNCHANGED zpl_obj
    /\ UNCHANGED <<gf_obj, gf_ret, zpl_ret>>
    /\ UNCHANGED <<crc_vars, img_vars>>

\* the texts a ZebrafyZPL is configured with
ConfigDocInputs ==
    {None, PyInt(123), PyStr(<<>>), PyStr(Field(1, 1, ASCII).text),
     PyStr(Field(MaxWidth, 1, Z64).text)}

\* the calls made so far, if any, were made on the class with these calls
Using(ops) == call.op \in ops \cup {"none"}

CrcCalls == {"CRC", "data_bytes", "poly"}
GfCalls == {"GraphicField", "pil_image", "format", "string_line_break"}
ZplCalls == {"ZebrafyZPL", "zpl_data"}
ImageCalls == {"ZebrafyImage", "ZebrafyImage.set"}
PdfCalls == {"ZebrafyPDF", "ZebrafyPDF.set"}

ConfigNext ==
    \/ Using(CrcCalls) /\ \E d \in CrcDataInputs, p \in CrcPolyInputs : CRC_init(d, p)
    \/ Using(CrcCalls) /\ \E d \in CrcDataInputs : CRC_set_data_bytes(d)
    \/ Using(CrcCalls) /\ \E p \in CrcPolyInputs : CRC_set_poly(p)
    \/ Using(GfCalls) /\ \E a \in GfInitInputs : GF_init(a[1], a[2], a[3], a[4])
    \/ Using(GfCalls) /\ \E i \in PilImageSetterInputs : GF_set_pil_image(i)
    \/ Using(GfCalls) /\ \E f \in FormatInputs : GF_set_format(f)
    \/ Using(GfCalls) /\ \E s \in StringLineBreakInputs : GF_set_string_line_break(s)
    \/ Using(ZplCalls) /\ \E d \in ConfigDocInputs : ZPL_init(d)
    \/ Using(ZplCalls) /\ \E d \in ConfigDocInputs : ZPL_set_zpl_data(d)
    \/ Using(ImageCalls) /\ \E a \in ZebrafyImageInputs : ZI_init(a)
    \/ Using(ImageCalls) /\ \E p \in ImageProperties : \E v \in ValueInputs(p) : ZI_set(p, v)
    \/ Using(PdfCalls) /\ \E a \in ZebrafyPDFInputs : PDF_init(a)
    \/ Using(PdfCalls) /\ \E p \in PdfProperties : \E v \in ValueInputs(p) : PDF_set(p, v)

SpecConfig == Init /\ [][ConfigNext]_vars


-----------------------------------------------------------------------------
(* The reference CRC, computed on 16-bit vectors: bit j of the register    *)
(* is element j + 1 of a sequence of 0s and 1s.                             *)

RECURSIVE ToBits(_, _)
ToBits(n, width) == IF width = 0 THEN <<>> ELSE <<n % 2>> \o ToBits(n \div 2, width - 1)

\* the number a vector of 16 bits denotes
FromBits(bits) ==
    bits[1] + 2 * bits[2] + 4 * bits[3] + 8 * bits[4]
    + 16 * (bits[5] + 2 * bits[6] + 4 * bits[7] + 8 * bits[8])
    + 256 * (bits[9] + 2 * bits[10] + 4 * bits[11] + 8 * bits[12])
    + 4096 * (bits[13] + 2 * bits[14] + 4 * bits[15] + 8 * bits[16])

RefBitStep(reg, databit, polybits) ==
    LET shifted == [j \in 1..16 |-> IF j < 16 THEN reg[j + 1] ELSE 0]
    IN  IF reg[1] # databit
        THEN [j \in 1..16 |-> IF shifted[j] # polybits[j] THEN 1 ELSE 0]
        ELSE shifted

\* the register after the data bits lo..hi, the first half before the second
RECURSIVE RefBits(_, _, _, _, _)
RefBits(reg, databits, polybits, lo, hi) ==
    CASE lo > hi -> reg
      [] lo = hi -> RefBitStep(reg, databits[lo], polybits)
      [] lo < hi ->
            CHOOSE r \in {RefBits(half, databits, polybits, ((lo + hi) \div 2) + 1, hi) :
                             half \in {RefBits(reg, databits, polybits, lo, (lo + hi) \div 2)}} : TRUE

\* the register after the bytes lo..hi of data, the first half before the
\* second
RECURSIVE RefBytes(_, _, _, _, _)
RefBytes(reg, data, polybits, lo, hi) ==
    CASE lo > hi -> reg
      [] lo = hi -> RefBits(reg, ToBits(data[lo], 8), polybits, 1, 8)
      [] lo < hi ->
            CHOOSE r \in {RefBytes(half, data, polybits, ((lo + hi) \div 2) + 1, hi) :
                             half \in {RefBytes(reg, data, polybits, lo, (lo + hi) \div 2)}} : TRUE

RefCrc16(data, poly) ==
    LET reg == RefBytes([j \in 1..16 |-> 1], data, ToBits(poly, 16), 1, Len(data))
        inverted == [j \in 1..16 |-> 1 - reg[j]]
        swapped == [j \in 1..16 |-> inverted[((j + 7) % 16) + 1]]
    IN  FromBits(swapped)

Is16Bit(n) == n \in 0..65535

\* C8: for every byte sequence and every 16-bit polynomial the checksum
\* returned by _get_crc16_ccitt is the reference one: register 0xFFFF, the bits
\* of each byte least-significant first, shift right and XOR the polynomial
\* exactly when register bit 0 differs from the data bit, complement within
\* 16 bits, swap the two bytes.
C8_CrcIsReference ==
    (crc_pc = "done" /\ Is16Bit(crc_obj.poly))
        => crc_ret = RefCrc16(crc_obj.data_bytes, crc_obj.poly)

\* the checksum of b"1\xff" under the default polynomial has been returned
C8_Witness ==
    /\ crc_pc = "done"
    /\ crc_obj = [data_bytes |-> <<49, 255>>, poly |-> DefaultPoly]
    /\ crc_ret = RefCrc16(<<49, 255>>, DefaultPoly)
    /\ crc_ret # 0

\* the number a text of uppercase hexadecimal digits denotes
RECURSIVE HexValue(_)
HexValue(s) ==
    IF s = <<>> THEN 0
    ELSE 16 * HexValue(SubSeq(s, 1, Len(s) - 1))
         + (CHOOSE h \in 0..15 : HexUpperDigits[h + 1] = s[Len(s)])

\* C9: for every byte sequence and every 16-bit polynomial the register is
\* within 0..0xFFFF after every bit step, the returned checksum is within
\* 0..0xFFFF and get_crc_hex_string returns exactly 4 uppercase hexadecimal
\* digits, zero-padded on the left, that denote the checksum.
C9_CrcRangeAndHex ==
    (crc_obj # NoObject /\ Is16Bit(crc_obj.poly)) =>
        /\ (crc_pc # "idle" => Is16Bit(crc_reg))
        /\ (crc_pc = "done" =>
              /\ Is16Bit(crc_ret)
              /\ Len(crc_hex) = 4
              /\ \A j \in 1..Len(crc_hex) :
                    \E h \in 1..16 : crc_hex[j] = HexUpperDigits[h]
              /\ HexValue(crc_hex) = crc_ret)

\* a checksum below 0x1000 has been formatted: the zero padding is used
C9_Witness ==
    /\ crc_pc = "done"
    /\ Is16Bit(crc_obj.poly)
    /\ crc_ret > 0
    /\ crc_ret < 4096
    /\ crc_hex[1] = "0"

\* C10: CRC(None, ...) raises ValueError and CRC(<non-bytes>, ...) raises
\* TypeError; CRC(data) without a polynomial has poly 0x8408; assigning poly
\* None raises ValueError and assigning a non-integer raises TypeError.
C10_CrcArguments ==
    /\ (call.op = "CRC" /\ call.data_bytes.t = "NoneType") => exc = "ValueError"
    /\ (call.op = "CRC" /\ call.data_bytes.t \notin {"NoneType", "bytes"})
          => exc = "TypeError"
    /\ (call.op = "CRC" /\ call.data_bytes.t = "bytes" /\ call.poly.t = "NoneType")
          => (exc = "none" /\ crc_obj.poly = 33800)
    /\ (call.op = "poly" /\ call.value.t = "NoneType") => exc = "ValueError"
    /\ (call.op = "poly" /\ call.value.t \notin {"NoneType", "int"})
          => exc = "TypeError"

\* CRC(None) has just been refused with a ValueError
C10_Witness ==
    /\ call.op = "CRC"
    /\ call.data_bytes.t = "NoneType"
    /\ exc = "ValueError"

-----------------------------------------------------------------------------
(* The directive and its round trip through the parser.                    *)

\* the smallest n with 8 * n >= w
CeilDiv8(w) == CHOOSE n \in 0..w : 8 * n >= w /\ 8 * (n - 1) < w

HasLineBreak(text) == \E j \in 1..Len(text) : text[j] = "\n"

\* text without its line breaks
StripBreaks(text) ==
    LET keep == {j \in 1..Len(text) : text[j] # "\n"}
        nth(k) == CHOOSE j \in keep : Cardinality({i \in keep : i <= j}) = k
    IN  [k \in 1..Cardinality(keep) |-> text[nth(k)]]

\* the encoder has returned a directive for the instance as it is now
Encoded == gf_obj # NoObject /\ gf_ret # NoObject

\* to_images has run on the directive of the encoder
Decoded == call.op = "to_images" /\ Encoded

\* C1 as stated: for every 1-bit bitmap and each format, to_images on the
\* directive of get_graphic_field returns exactly one bitmap, equal to the
\* encoded one in width, height and every bit (no line break configured).
C1_RoundTripExact ==
    (Decoded /\ gf_obj.pil_image.mode = "1" /\ ~Truthy(gf_obj.string_line_break))
        => (exc = "none" /\ zpl_ret.images = <<gf_obj.pil_image>>)

\* C1: for every 1-bit bitmap of width w and height h and each format, when
\* the directive of get_graphic_field holds no line break, to_images returns
\* exactly one bitmap, of height h and width 8 * ceil(w / 8), whose pixels are
\* those of the encoded bitmap in columns 1..w and 0 in the columns past w (so
\* it is the encoded bitmap exactly when w is a multiple of 8).
C1_RoundTripPadded ==
    (Decoded /\ gf_obj.pil_image.mode = "1" /\ ~HasLineBreak(gf_ret.data)) =>
        /\ exc = "none"
        /\ Len(zpl_ret.images) = 1
        /\ LET b == gf_obj.pil_image
               d == zpl_ret.images[1]
           IN  /\ d.mode = "1"
               /\ d.size = <<8 * CeilDiv8(b.size[1]), b.size[2]>>
               /\ DOMAIN d.px = 1..b.size[2]
               /\ \A y \in 1..b.size[2] :
                     /\ DOMAIN d.px[y] = 1..d.size[1]
                     /\ \A x \in 1..d.size[1] :
                           d.px[y][x] = IF x <= b.size[1] THEN b.px[y][x] ELSE 0

\* a 9x2 bitmap encoded as Z64 has come back 16 pixels wide
C1_Witness ==
    /\ Decoded
    /\ gf_obj.format = Z64
    /\ gf_obj.pil_image = Bitmap(9, 2)
    /\ exc = "none"
    /\ zpl_ret.images[1].size = <<16, 2>>

\* C2 as stated: for every image, format and positive string_line_break,
\* to_images on the directive encoded with the line break returns what it
\* returns on the directive encoded without one.
C2_LineBreakCosmetic ==
    (Decoded /\ Truthy(gf_obj.string_line_break)) =>
        LET plain == [gf_obj EXCEPT !.string_line_break = None]
            r == ToImages(GetGraphicField(plain).text)
        IN  exc = r.exc /\ zpl_ret.images = r.images

\* the directive of a 1x1 bitmap in ASCII with a line break after every
\* character has been refused, and without the line break it is decoded
C2_Witness ==
    /\ Decoded
    /\ gf_obj = [pil_image |-> Bitmap(1, 1), format |-> ASCII,
                 string_line_break |-> PyInt(1)]
    /\ gf_ret.text = <<"^", "G", "F", "A", ",", "3", ",", "1", ",", "1", ",",
                       "8", "\n", "0", "^", "F", "S">>
    /\ exc = "ValueError"
    /\ zpl_ret.msg = "no graphic field"
    /\ ToImages(GetGraphicField([gf_obj EXCEPT !.string_line_break = None]).text).exc
          = "none"

\* C3 as stated: the emitted binary byte count is the length of the payload
\* as built before any line break is put in, so the three numbers of the
\* header are those of the directive encoded without string_line_break.
C3_ByteCountPreBreak ==
    Encoded =>
        LET plain == GetGraphicField([gf_obj EXCEPT !.string_line_break = None])
        IN  /\ gf_ret.binary_byte_count = Len(Payload(gf_obj))
            /\ gf_ret.binary_byte_count = plain.binary_byte_count
            /\ gf_ret.graphic_field_count = plain.graphic_field_count
            /\ gf_ret.bytes_per_row = plain.bytes_per_row

\* the two hex digits of a 1x1 bitmap, broken after every character, are
\* announced as 3 bytes
C3_Witness ==
    /\ call.op = "get_graphic_field"
    /\ gf_obj = [pil_image |-> Bitmap(1, 1), format |-> ASCII,
                 string_line_break |-> PyInt(1)]
    /\ Len(Payload(gf_obj)) = 2
    /\ gf_ret.binary_byte_count = 3

\* the letter the statement of C4 expects after ^GF
WireLetter(format) ==
    IF format = ASCII THEN "A" ELSE IF format = B64 THEN "B" ELSE "C"

\* the directive read field by field: [ok, letter, counts, data], ok when it
\* is ^GF, one character, a comma, three unsigned decimal numbers each
\* followed by a comma, a rest and ^FS
ReadDirective(t) ==
    LET c2 == RunEnd(t, 6, Digits)
        c3 == RunEnd(t, c2 + 1, Digits)
        c4 == RunEnd(t, c3 + 1, Digits)
    IN  IF /\ Len(t) >= 8
           /\ SubSeq(t, 1, 3) = <<"^", "G", "F">>
           /\ t[5] = ","
           /\ c2 > 6 /\ c3 > c2 + 1 /\ c4 > c3 + 1
           /\ c4 + 3 <= Len(t)
           /\ t[c2] = "," /\ t[c3] = "," /\ t[c4] = ","
           /\ SubSeq(t, Len(t) - 2, Len(t)) = <<"^", "F", "S">>
        THEN [ok |-> TRUE, letter |-> t[4],
              counts |-> <<SubSeq(t, 6, c2 - 1), SubSeq(t, c2 + 1, c3 - 1),
                           SubSeq(t, c3 + 1, c4 - 1)>>,
              data |-> SubSeq(t, c4 + 1, Len(t) - 3)]
        ELSE [ok |-> FALSE, letter |-> "", counts |-> <<>>, data |-> <<>>]

\* C4 as stated: the directive is ^GF<format>,<binaryByteCount>,
\* <graphicFieldCount>,<bytesPerRow>,<data>^FS with <format> the letter of the
\* configured format: A for ASCII, B for B64, C for Z64.
C4_LetterByFormat ==
    Encoded =>
        /\ ReadDirective(gf_ret.text).ok
        /\ ReadDirective(gf_ret.text).letter = WireLetter(gf_obj.format)

\* C4: the directive is ^GFA,<binaryByteCount>,<graphicFieldCount>,
\* <bytesPerRow>,<data>^FS: the letter after ^GF is A whatever the configured
\* format (which shows only in the tag of the data), the three numbers are in
\* decimal without leading zeros and are the values of _get_binary_byte_count,
\* _get_graphic_field_count and _get_bytes_per_row, and <data> is the text of
\* _get_data_string.
C4_DirectiveForm ==
    Encoded =>
        LET d == ReadDirective(gf_ret.text)
        IN  /\ d.ok
            /\ d.letter = "A"
            /\ \A k \in 1..3 : d.counts[k][1] # "0"
            /\ ParseInt(d.counts[1]) = Len(d.data)
            /\ ParseInt(d.counts[2]) = CeilDiv8(gf_obj.pil_image.size[1])
                                          * gf_obj.pil_image.size[2]
            /\ ParseInt(d.counts[3]) = CeilDiv8(gf_obj.pil_image.size[1])
            /\ d.data = gf_ret.data
            /\ StripBreaks(d.data) = Payload(gf_obj)
            /\ (gf_obj.format = ASCII) = (d.data[1] # ":")

\* a Z64 directive has been emitted under the letter A
C4_Witness ==
    /\ call.op = "get_graphic_field"
    /\ gf_obj.format = Z64
    /\ gf_obj.pil_image = Bitmap(9, 2)
    /\ SubSeq(gf_ret.text, 1, 12)
          = <<"^", "G", "F", "A", ",", "3", "0", ",", "4", ",", "2", ",">>
    /\ SubSeq(gf_ret.data, 1, 5) = <<":", "Z", "6", "4", ":">>

\* C5 as stated: for the ASCII format the emitted binary byte count equals
\* the emitted graphic field count, for every bitmap.
C5_AsciiCountsEqual ==
    (Encoded /\ gf_obj.format = ASCII)
        => gf_ret.binary_byte_count = gf_ret.graphic_field_count

\* a 1x1 bitmap in ASCII without line break is announced as 2 bytes for a
\* graphic field of 1 byte
C5_Witness ==
    /\ call.op = "get_graphic_field"
    /\ gf_obj = [pil_image |-> Bitmap(1, 1), format |-> ASCII,
                 string_line_break |-> None]
    /\ gf_ret.binary_byte_count = 2
    /\ gf_ret.graphic_field_count = 1

\* an instance of which only the size of the image matters
OfSize(mode, w, h) == [pil_image |-> [mode |-> mode, size |-> <<w, h>>]]

\* C6: for every image of width w >= 1 and height h >= 1, of any mode,
\* _get_bytes_per_row is ceil(w / 8) and _get_graphic_field_count is
\* ceil(w / 8) * h: 1 for 1x1, 125000 for 1000x1000, 20 for a 10x10 RGB image.
C6_RowAndFieldCounts ==
    /\ gf_obj # NoObject =>
          LET w == gf_obj.pil_image.size[1]
              h == gf_obj.pil_image.size[2]
          IN  /\ w >= 1 /\ h >= 1
              /\ GetBytesPerRow(gf_obj) = CeilDiv8(w)
              /\ GetGraphicFieldCount(gf_obj) = CeilDiv8(w) * h
              /\ gf_ret # NoObject =>
                    /\ gf_ret.bytes_per_row = CeilDiv8(w)
                    /\ gf_ret.graphic_field_count = CeilDiv8(w) * h
    /\ GetGraphicFieldCount(OfSize("1", 1, 1)) = 1
    /\ GetGraphicFieldCount(OfSize("1", 1000, 1000)) = 125000
    /\ GetGraphicFieldCount(OfSize("RGB", 10, 10)) = 20
    /\ \A w \in 1..64 : GetBytesPerRow(OfSize("1", w, 1)) = CeilDiv8(w)

\* an RGB image 9 pixels wide has been encoded with 2 bytes per row
C6_Witness ==
    /\ call.op = "get_graphic_field"
    /\ gf_obj.pil_image.mode = "RGB"
    /\ gf_obj.pil_image.size = <<9, 1>>
    /\ gf_ret.bytes_per_row = 2
    /\ gf_ret.graphic_field_count = 2

\* C7: for B64 and Z64 the payload built by the encoder is the 5-character
\* tag, the Base64 text (of the raw bytes for B64, of the zlib-compressed
\* bytes for Z64), ":" and the 4-digit CRC of the ASCII bytes of that text;
\* the slices of the parser (text[5:-5] and text[-4:]) recover the text and
\* the CRC, and the CRC the parser recomputes equals the embedded one.
C7_TaggedPayload ==
    (Encoded /\ gf_obj.format \in {B64, Z64}) =>
        LET p == StripBreaks(gf_ret.data)
            n == Len(p)
            text == SubSeq(p, 6, n - 5)
            crc == SubSeq(p, n - 3, n)
            raw == ToBytes(gf_obj.pil_image)
            decoded == B64Decode(text)
        IN  /\ n >= 10
            /\ SubSeq(p, 1, 5) = <<":">> \o gf_obj.format \o <<":">>
            /\ p[n - 4] = ":"
            /\ decoded.exc = "none"
            /\ DecodeAscii(B64Encode(decoded.bytes)) = text
            /\ gf_obj.format = B64 => decoded.bytes = raw
            /\ gf_obj.format = Z64 =>
                  /\ decoded.bytes = ZlibCompress(raw)
                  /\ ZlibDecompress(decoded.bytes) = [exc |-> "none", bytes |-> raw]
            /\ \A j \in 1..4 : \E h \in 1..16 : crc[j] = HexUpperDigits[h]
            /\ HexValue(crc) = RefCrc16(EncodeAscii(text), DefaultPoly)
            /\ PySlice(p, 5, -5) = text
            /\ PySliceFrom(p, -4) = crc
            /\ call.op = "to_images" => zpl_ret.msg # "crc"

\* the B64 directive of a 9x2 bitmap has passed the CRC test of the parser
C7_Witness ==
    /\ Decoded
    /\ gf_obj.format = B64
    /\ gf_obj.pil_image = Bitmap(9, 2)
    /\ PySliceFrom(gf_ret.data, -4) = GetCrcHexString(EncodeAscii(PySlice(gf_ret.data, 5, -5)), DefaultPoly)
    /\ exc = "none"

-----------------------------------------------------------------------------
(* The CRC of no bytes.                                                    *)

\* C11: the CRC engine rejects empty input: constructing a CRC over an empty
\* byte sequence fails with a ValueError instead of producing a checksum.
C11_EmptyRejected ==
    (call.op = "CRC" /\ call.data_bytes = PyBytes(<<>>)) => exc = "ValueError"

\* CRC(b"") has been constructed and get_crc_hex_string has returned "0000"
C11_Witness ==
    /\ crc_obj # NoObject
    /\ crc_obj.data_bytes = <<>>
    /\ crc_pc = "done"
    /\ crc_hex = <<"0", "0", "0", "0">>

-----------------------------------------------------------------------------
(* The parser on tampered, crafted and multiple directives.                *)

\* to_images has run
Parsed == call.op = "to_images" /\ zpl_obj # NoObject

\* to_images has raised and returned nothing
Raised(class, msg) ==
    /\ exc = class
    /\ zpl_ret.msg = msg
    /\ zpl_ret.images = <<>>

\* the tampered directives whose new character is one of set
TamperedWith(set) == {TamperedText(t) : t \in {x \in Tamperings : x[3] \in set}}

TamperedByLineBreak == TamperedWith({"\n"})
TamperedByNonAscii == TamperedWith({NonAscii})
TamperedByOther == TamperedWith(TamperChars \ {"\n", NonAscii})

TamperedSmallest == [Field(1, 1, B64).text EXCEPT ![18] = "h"]

C13_NonDivisibleRefused ==
    (Parsed /\ zpl_obj.zpl_data \in NonDivisibleDocs) =>
        (IsValueError(exc) /\ zpl_ret.images = <<>>)

\* "^GFA,6,3,2,aa55aa^FS" (3 bytes in rows of 2) has been decoded into a
\* bitmap of one row of 16 pixels, its third byte dropped
C13_Witness ==
    /\ Parsed
    /\ zpl_obj.zpl_data \in NonDivisibleDocs
    /\ zpl_obj.zpl_data =
          <<"^", "G", "F", "A", ",", "6", ",", "3", ",", "2", ",",
            "a", "a", "5", "5", "a", "a", "^", "F", "S">>
    /\ exc = "none"
    /\ Len(zpl_ret.images) = 1
    /\ zpl_ret.images[1].size = <<16, 1>>

\* the bitmap b as a directive carries it: b's rows, each filled with 0 up
\* to a whole number of bytes
Padded(b) ==
    [mode |-> "1", size |-> <<8 * CeilDiv8(b.size[1]), b.size[2]>>,
     px |-> [y \in 1..b.size[2] |-> [x \in 1..(8 * CeilDiv8(b.size[1])) |->
               IF x <= b.size[1] THEN b.px[y][x] ELSE 0]]]

\* the directives of the largest bitmap with tagged data under the letters
\* A, B and C, those of all three formats under the letter A, and those
\* under the other letters
TaggedLetterDocs ==
    {LetterText(l, MaxWidth, MaxHeight, f) : l \in {<<"A">>, <<"B">>, <<"C">>}, f \in {B64, Z64}}
LetterADocs == {LetterText(<<"A">>, MaxWidth, MaxHeight, f) : f \in {ASCII, B64, Z64}}
OtherLetterDocs == LetterDocs \ LetterADocs

\* the Z64 directive of the largest bitmap, written ^GFC
LetterCDoc == LetterText(<<"C">>, MaxWidth, MaxHeight, Z64)

\* to_images has returned the largest bitmap, padded, and nothing else
ReturnedLargest ==
    /\ exc = "none"
    /\ zpl_ret.images = <<Padded(Bitmap(MaxWidth, MaxHeight))>>

\* C14 as stated: for each of the letters A, B and C, a directive whose data
\* is a valid ":Z64:" or ":B64:" payload is decoded as its tag says, and gives
\* the same bitmap whatever the letter.
C14_TagWinsOverLetter ==
    (Parsed /\ zpl_obj.zpl_data \in TaggedLetterDocs) => ReturnedLargest

\* C14: under the letter A the data's own tag selects the decoding: CRC
\* check, Base64 decoding and inflation for ":Z64:", CRC check and Base64
\* decoding for ":B64:", hexadecimal decoding without a tag, and the three
\* give the same bitmap.  Under any other letters GF_MATCHER matches (none,
\* B, C, or several) to_images raises the ValueError "No valid compression
\* type found" without looking at the data.
C14_TagUnderLetterA ==
    /\ (Parsed /\ zpl_obj.zpl_data \in LetterADocs) => ReturnedLargest
    /\ (Parsed /\ zpl_obj.zpl_data \in OtherLetterDocs)
          => Raised("ValueError", "compression")

\* the Z64 directive of the largest bitmap, written ^GFC, has been refused
\* for its letter
C14_Witness ==
    /\ Parsed
    /\ zpl_obj.zpl_data = LetterCDoc
    /\ SubSeq(zpl_obj.zpl_data, 1, 10) = <<"^", "G", "F", "C", ",", "3", "0", ",", "4", ",">>
    /\ Raised("ValueError", "compression")

\* the occurrences of the label with text doc, by their indices in
\* LabelFields: each stands between a "^FO0,0" and a line break
LabelOf(doc) ==
    LET starts == {j \in 1..(Len(doc) - 2) : SubSeq(doc, j, j + 2) = <<"^", "F", "O">>}
        n == Cardinality(starts)
        nth(k) == CHOOSE j \in starts : Cardinality({i \in starts : i <= j}) = k
        field(k) == SubSeq(doc, nth(k) + 6,
                           (IF k = n THEN Len(doc) - 3 ELSE nth(k + 1)) - 2)
    IN  [k \in 1..n |-> CHOOSE i \in 1..Len(LabelFields) : LabelFields[i] = field(k)]

\* the indices in LabelFields of the well-formed occurrences, of those the
\* loop refuses and of those GF_MATCHER does not match
GoodIndices == 1..Len(GoodFields)
InvalidIndices == (Len(GoodFields) + 1)..(Len(GoodFields) + Len(InvalidFields))
UnmatchedIndices == (Len(GoodFields) + Len(InvalidFields) + 1)..Len(LabelFields)

\* the bitmaps of GoodFields as a directive carries them
GoodImages ==
    <<Padded(Bitmap(1, 1)), Padded(Bitmap(MaxWidth, 1)), Padded(Bitmap(1, MaxHeight))>>

\* to_images has run on a label
ParsedLabel == Parsed /\ zpl_obj.zpl_data \in LabelDocs

ThreeFieldLabel == LabelText(<<3, 1, 2>>)

InvalidErrors ==
    <<[exc |-> "ValueError", msg |-> "compression"],
      [exc |-> "ValueError", msg |-> "crc"],
      [exc |-> "zlib.error", msg |-> "decode"]>>

\* the positions in a label of the occurrences the loop refuses
InvalidAt(fields) == {j \in 1..Len(fields) : fields[j] \in InvalidIndices}

\* C16: if any matched graphic field of a label is invalid (its letter, its
\* CRC or its data), to_images raises and returns no list at all, even when
\* earlier fields were decoded; the error is that of the first invalid field
\* in the order of the text, whatever comes after it.
C16_AllOrNothing ==
    ParsedLabel =>
        LET fields == LabelOf(zpl_obj.zpl_data)
            first == CHOOSE j \in InvalidAt(fields) : \A k \in InvalidAt(fields) : j <= k
            error == InvalidErrors[fields[first] - Len(GoodFields)]
        IN  InvalidAt(fields) # {} => Raised(error.exc, error.msg)

\* the label of the ASCII directive, the one that is no zlib stream and the
\* one with the wrong CRC
GoodBadBadLabel == LabelText(<<1, 6, 5>>)

\* that label has been refused with the zlib error of its second field; the
\* bitmap of the first is not returned and the CRC of the third not reported
C16_Witness ==
    /\ Parsed
    /\ MaxFields >= 3
    /\ zpl_obj.zpl_data = GoodBadBadLabel
    /\ Raised("zlib.error", "decode")

\* C17: when a label holds at least one well-formed graphic field and also a
\* ^GF...^FS occurrence that is structurally invalid (a letter outside A, B
\* and C, a count that is 0 or no number, data broken across lines),
\* to_images fails; it does not return the bitmaps of the well-formed fields
\* alone.
C17_NoSilentSkip ==
    ParsedLabel =>
        LET fields == LabelOf(zpl_obj.zpl_data)
        IN  ((\E j \in 1..Len(fields) : fields[j] \in GoodIndices)
             /\ (\E j \in 1..Len(fields) : fields[j] \in UnmatchedIndices))
                => exc # "none"

\* the label of the ASCII directive and of "^GFD,2,1,1,80^FS"
GoodUnmatchedLabel == LabelText(<<1, 7>>)

\* that label has given the bitmap of its first field and no error
C17_Witness ==
    /\ Parsed
    /\ zpl_obj.zpl_data = GoodUnmatchedLabel
    /\ exc = "none"
    /\ zpl_ret.images = <<GoodImages[1]>>

\* the labels without any occurrence GF_MATCHER matches
UnmatchedOnlyLabels ==
    {LabelText(fields) :
        fields \in {f \in Labels : \A j \in 1..Len(f) : f[j] \in UnmatchedIndices}}

\* the texts in which GF_MATCHER recognizes no directive: the empty and the
\* other plain texts, the labels of unmatched occurrences, and the directives
\* broken by a line break
NoFieldDocs == PlainDocs \cup UnmatchedOnlyLabels \cup TamperedByLineBreak

\* C18: for every ZPL text (the empty one included) in which no graphic field
\* directive is recognized, to_images raises the ValueError "Could not find a
\* graphic field"; and to_images never returns an empty list.
C18_NoFieldRaises ==
    /\ (Parsed /\ zpl_obj.zpl_data \in NoFieldDocs)
          => Raised("ValueError", "no graphic field")
    /\ (Parsed /\ exc = "none") => Len(zpl_ret.images) >= 1

\* to_images has raised on the empty text
C18_Witness ==
    /\ Parsed
    /\ zpl_obj.zpl_data = <<>>
    /\ Raised("ValueError", "no graphic field")

\* the label that is only the directive with the wrong CRC
WrongCrcLabel == LabelText(<<5>>)

\* C19 as stated: the error of a CRC mismatch (a ValueError, raised at line
\* 115) is of another kind than the errors of a malformed document (no
\* graphic field, a letter that is not accepted) and of a payload that cannot
\* be decoded, so that a caller can tell them apart by the kind.
C19_CrcKindDistinct ==
    (Parsed /\ exc # "none" /\ zpl_ret.msg # "crc") => exc # "ValueError"

\* C19: a CRC mismatch is raised as a plain ValueError, the class also of the
\* errors for a text without graphic field, for a letter that is not accepted
\* and for data that is no hexadecimal text (a Base64 text with wrong padding
\* raises binascii.Error, a subclass of it); what tells the CRC mismatch from
\* them is only its message, which no other error carries.
C19_CrcByMessageOnly ==
    /\ (Parsed /\ zpl_ret.msg = "crc") => exc = "ValueError"
    /\ (Parsed /\ zpl_obj.zpl_data \in TamperedByOther \cup {WrongCrcLabel})
          => Raised("ValueError", "crc")
    /\ (Parsed /\ zpl_obj.zpl_data \in NoFieldDocs)
          => Raised("ValueError", "no graphic field")
    /\ (Parsed /\ zpl_obj.zpl_data \in OtherLetterDocs)
          => Raised("ValueError", "compression")
    /\ (Parsed /\ zpl_obj.zpl_data = BadHexText) => Raised("ValueError", "decode")
    /\ (Parsed /\ zpl_obj.zpl_data = BadBase64Text)
          => (Raised("binascii.Error", "decode") /\ IsValueError(exc))

\* the label with the wrong CRC has been refused with a ValueError
C19_Witness ==
    /\ Parsed
    /\ zpl_obj.zpl_data = WrongCrcLabel
    /\ Raised("ValueError", "crc")

\* C20: every payload that cannot be decoded surfaces from to_images as an
\* error of class ValueError: data under ^GFA that is no hexadecimal text, a
\* Base64 text that is not valid under a matching CRC, and a ":Z64:" payload
\* under a matching CRC whose bytes are no zlib stream.
C20_DecodeFailureIsValueError ==
    (Parsed /\ zpl_obj.zpl_data \in DecodeFailureDocs) =>
        (IsValueError(exc) /\ zpl_ret.images = <<>>)

\* "^GFA,14,1,1,:Z64:AQID:B3BA^FS" has been refused with zlib.error, which
\* is no ValueError
C20_Witness ==
    /\ Parsed
    /\ zpl_obj.zpl_data = BadZlibText
    /\ SubSeq(zpl_obj.zpl_data, 13, 26) =
          <<":", "Z", "6", "4", ":", "A", "Q", "I", "D", ":", "B", "3", "B", "A">>
    /\ Raised("zlib.error", "decode")
    /\ ~IsValueError(exc)

-----------------------------------------------------------------------------
(* The dimensions the parser recovers.                                     *)

\* the directive the encoder returned, its binary byte count replaced by 1
CountReplaced ==
    GfText(<<"A">>, <<"1">>, FormatD(gf_ret.graphic_field_count),
           FormatD(gf_ret.bytes_per_row), gf_ret.data)

\* C29: for every 1-bit bitmap of width w and height h and every format, with
\* no line break set, to_images on the directive of the encoder returns
\* exactly one bitmap, of height h and of width 8 * ceil(w / 8), whose packed
\* bytes are the packed bytes of the encoded bitmap; the binary byte count of
\* the directive plays no part: with another count the result is the same.
C29_PackedBytesRecovered ==
    (Decoded /\ gf_obj.pil_image.mode = "1" /\ ~Truthy(gf_obj.string_line_break)) =>
        /\ exc = "none"
        /\ Len(zpl_ret.images) = 1
        /\ zpl_ret.images[1].size =
              <<8 * CeilDiv8(gf_obj.pil_image.size[1]), gf_obj.pil_image.size[2]>>
        /\ ToBytes(zpl_ret.images[1]) = ToBytes(gf_obj.pil_image)
        /\ ToImages(CountReplaced) = [exc |-> "none", msg |-> "", images |-> zpl_ret.images]

\* the B64 directive of the 9 x 2 bitmap has come back as one bitmap of
\* 16 x 2 pixels with the four packed bytes 0xAA 0x80 0x55 0x00
C29_Witness ==
    /\ Decoded
    /\ gf_obj.format = B64
    /\ gf_obj.pil_image = Bitmap(9, 2)
    /\ ~Truthy(gf_obj.string_line_break)
    /\ exc = "none"
    /\ zpl_ret.images[1].size = <<16, 2>>
    /\ ToBytes(zpl_ret.images[1]) = <<170, 128, 85, 0>>

\* the directives with refused data under the letter A and under the others
BadPayloadUnderA == {BadPayloadText(<<"A">>, d) : d \in BadPayloads}
BadPayloadUnderOther == BadPayloadDocs \ BadPayloadUnderA

\* "^GFAB,14,1,1,:Z64:AQID:B3BA^FS"
TwoLettersBadZlib ==
    BadPayloadText(<<"A", "B">>, Tagged(Z64, DecodeAscii(B64Encode(<<1, 2, 3>>))))

\* C30: to_images raises the ValueError "No valid compression type found" for
\* every matched directive whose letters are not exactly "A" (none, B, C, or
\* several), and it does so before the data is inspected, CRC-checked or
\* decoded: data that is refused with an error of its own under the letter A
\* gives the letter's error under any other.
C30_LetterBeforePayload ==
    /\ (Parsed /\ zpl_obj.zpl_data \in OtherLetterDocs \cup BadPayloadUnderOther)
          => Raised("ValueError", "compression")
    /\ (Parsed /\ zpl_obj.zpl_data \in BadPayloadUnderA)
          => (exc # "none" /\ zpl_ret.msg \in {"crc", "decode", "encode"})

\* the directive with two letters and data that is no zlib stream has been
\* refused for its letters
C30_Witness ==
    /\ Parsed
    /\ zpl_obj.zpl_data = TwoLettersBadZlib
    /\ SubSeq(zpl_obj.zpl_data, 1, 6) = <<"^", "G", "F", "A", "B", ",">>
    /\ Raised("ValueError", "compression")

\* GraphicField has just been called with a valid image and line break
Constructed ==
    /\ call.op = "GraphicField"
    /\ PilImageSetterExc(call.pil_image) = "none"
    /\ StringLineBreakSetterExc(call.string_line_break) = "none"

Letters == {<<"A">>, <<"B">>, <<"C">>}

\* the constructor was given no format and a str that is no letter of A, B, C
BadLetterGiven ==
    /\ Constructed
    /\ call.format = None
    /\ call.compression_type.t = "str"
    /\ Upper(call.compression_type.v) \notin Letters

\* C21: GraphicField built with a string compression_type outside A, B, C
\* (any case) and no format raises ValueError, the error of assigning the
\* unknown name "D" to format.
C21_BadLetterValueError ==
    /\ BadLetterGiven => exc = "ValueError"
    /\ (call.op = "format" /\ call.value = PyStr(<<"D">>)) => exc = "ValueError"

\* GraphicField(image, compression_type="D") has raised AttributeError
C21_Witness ==
    /\ BadLetterGiven
    /\ call.compression_type = PyStr(<<"D">>)
    /\ exc = "AttributeError"
    /\ gf_obj = NoObject

\* the name of each letter
NameOf(letter) ==
    IF letter = <<"A">> THEN ASCII ELSE IF letter = <<"B">> THEN B64 ELSE Z64

\* the instance GraphicField(image, format=name, string_line_break=s) of the
\* image and line break of the last call
BuiltByName(name) ==
    [pil_image |-> call.pil_image.v, format |-> name,
     string_line_break |-> call.string_line_break]

\* C22: letters and names are synonyms and the name is authoritative.  A
\* GraphicField built with compression_type a letter of A, B, C in either
\* case and no format is the instance built with the letter's name and
\* encodes to the same directive; with both arguments the outcome is that
\* of the format argument alone, whatever the compression_type; with
\* neither the format is ASCII.
C22_LettersAreSynonyms ==
    /\ (Constructed /\ call.format = None /\ call.compression_type.t = "str"
            /\ Upper(call.compression_type.v) \in Letters) =>
          /\ exc = "none"
          /\ gf_obj = BuiltByName(NameOf(Upper(call.compression_type.v)))
          /\ GetGraphicField(gf_obj)
               = GetGraphicField(BuiltByName(NameOf(Upper(call.compression_type.v))))
    /\ (Constructed /\ call.format # None) =>
          /\ exc = (IF call.format.t # "str" THEN "AttributeError"
                    ELSE FormatSetterExc(PyStr(Upper(call.format.v))))
          /\ exc = "none" => gf_obj = BuiltByName(Upper(call.format.v))
    /\ (Constructed /\ call.format = None /\ call.compression_type = None) =>
          (exc = "none" /\ gf_obj = BuiltByName(ASCII))

\* GraphicField(image, compression_type="b", format="Z64") has returned an
\* instance of format Z64
C22_Witness ==
    /\ Constructed
    /\ call.compression_type = PyStr(<<"b">>)
    /\ call.format = PyStr(Z64)
    /\ exc = "none"
    /\ gf_obj.format = Z64

\* zpl_to_image has run on the text to_images ran on
ParsedFirst == call.op = "zpl_to_image" /\ zpl_obj # NoObject /\ zf_ret # NoObject

\* C23: zpl_to_image agrees with to_images: on a text without a directive
\* both raise, and whenever to_images returns a list zpl_to_image returns
\* its first bitmap, for hexadecimal, ":B64:" and ":Z64:" data alike.
C23_FirstAgrees ==
    ParsedFirst =>
        /\ ~Search(zpl_obj.zpl_data).ok => (zpl_ret.msg # "" /\ exc # "none")
        /\ zpl_ret.msg = "" => (exc = "none" /\ zf_ret.image = zpl_ret.images[1])

\* to_images has returned the 16 x 2 bitmap of "^GFA,18,4,2,:B64:qoBVAA==:A3C9^FS"
\* and zpl_to_image has raised the ValueError of bytes.fromhex on the same text
C23_Witness ==
    /\ ParsedFirst
    /\ zpl_obj.zpl_data = Field(9, 2, B64).text
    /\ SubSeq(zpl_obj.zpl_data, 1, 16)
         = <<"^", "G", "F", "A", ",", "1", "8", ",", "4", ",", "2", ",", ":", "B", "6", "4">>
    /\ zpl_ret.msg = ""
    /\ Len(zpl_ret.images) = 1
    /\ exc = "ValueError"
    /\ zf_ret.msg = "decode"

\* to_zpl of the ZebrafyImage has returned
Converted == call.op = "ZebrafyImage.to_zpl" /\ zi_obj # NoObject /\ exc = "none"

\* the directive to_zpl writes for the instance when both positions are 0
\* and complete_zpl is False, after its "^FO0,0"
BareDirective ==
    LET bare == ImageToZpl([zi_obj EXCEPT !.pos_x = PyInt(0), !.pos_y = PyInt(0),
                                          !.complete_zpl = PyBool(FALSE)]).text
    IN  SubSeq(bare, 7, Len(bare))

\* C27: whenever to_zpl of a ZebrafyImage returns, it returns
\* "^FO<pos_x>,<pos_y>" followed by the graphic-field directive when
\* complete_zpl is False and "^XA\n" + that text + "\n^XZ\n" when it is True,
\* the directive being the one written with both positions 0 and
\* complete_zpl False.
C27_Framing ==
    Converted =>
        LET placed == <<"^", "F", "O">> \o Str(zi_obj.pos_x) \o <<",">>
                      \o Str(zi_obj.pos_y) \o BareDirective
        IN  /\ SubSeq(BareDirective, 1, 3) = <<"^", "G", "F">>
            /\ ~zi_obj.complete_zpl.v => zi_ret.text = placed
            /\ zi_obj.complete_zpl.v =>
                  zi_ret.text = <<"^", "X", "A", "\n">> \o placed
                                \o <<"\n", "^", "X", "Z", "\n">>
            /\ (~Truthy(zi_obj.pos_x) /\ ~Truthy(zi_obj.pos_y)) =>
                  SubSeq(placed, 1, 6) = <<"^", "F", "O", "0", ",", "0">>

\* the 2 x 2 bitmap placed at (5, 7) has been converted into the complete
\* label "^XA\n^FO5,7^GFA,14,2,1,:B64:gEA=:08B8^FS\n^XZ\n"
C27_Witness ==
    /\ Converted
    /\ zi_obj.pos_x = PyInt(5)
    /\ zi_obj.pos_y = PyInt(7)
    /\ zi_obj.complete_zpl = PyBool(TRUE)
    /\ zi_obj.format = B64
    /\ SubSeq(zi_ret.text, 1, 24)
         = <<"^", "X", "A", "\n", "^", "F", "O", "5", ",", "7", "^", "G", "F", "A", ",",
             "1", "4", ",", "2", ",", "1", ",", ":", "B">>
    /\ SubSeq(zi_ret.text, Len(zi_ret.text) - 7, Len(zi_ret.text))
         = <<"^", "F", "S", "\n", "^", "X", "Z", "\n">>

\* to_zpl of the ZebrafyPDF has returned
PdfConverted == call.op = "ZebrafyPDF.to_zpl" /\ pdf_obj # NoObject /\ exc = "none"

\* the pages of the document of the ZebrafyPDF
Pages == pdf_obj.pdf_bytes.v[1]

\* the text of each page: its position and graphic field, and a line break
PageTexts == [k \in 1..Len(Pages) |-> PageToZpl(pdf_obj, Pages[k]).text]

\* the texts k.. of a sequence one after the other
RECURSIVE InOrder(_, _)
InOrder(texts, k) ==
    IF k > Len(texts) THEN <<>> ELSE texts[k] \o InOrder(texts, k + 1)

\* the text in a label of its own
Label(text) == <<"^", "X", "A", "\n">> \o text \o <<"^", "X", "Z", "\n">>

\* how often the three characters of mark occur in text
Occurrences(text, mark) ==
    Cardinality({i \in 1..(Len(text) - 2) : SubSeq(text, i, i + 2) = mark})

\* C28: whenever to_zpl of a ZebrafyPDF of P pages returns, the text holds
\* the graphic fields of the pages in page order, each followed by a line
\* break: as P labels "^XA\n" + page + "^XZ\n" with complete_zpl and
\* split_pages set, as one label holding all pages with complete_zpl set and
\* split_pages unset, and without any ^XA or ^XZ with complete_zpl unset,
\* where split_pages makes no difference.
C28_PagesInOrder ==
    PdfConverted =>
        LET texts == PageTexts
            xa == Occurrences(pdf_ret.text, <<"^", "X", "A">>)
            xz == Occurrences(pdf_ret.text, <<"^", "X", "Z">>)
        IN  /\ \A k \in 1..Len(texts) :
                  /\ SubSeq(texts[k], 1, 3) = <<"^", "F", "O">>
                  /\ texts[k][Len(texts[k])] = "\n"
            /\ (pdf_obj.complete_zpl.v /\ pdf_obj.split_pages.v) =>
                  /\ pdf_ret.text = InOrder([k \in 1..Len(texts) |-> Label(texts[k])], 1)
                  /\ xa = Len(Pages)
                  /\ xz = Len(Pages)
            /\ (pdf_obj.complete_zpl.v /\ ~pdf_obj.split_pages.v) =>
                  /\ pdf_ret.text = Label(InOrder(texts, 1))
                  /\ xa = 1
                  /\ xz = 1
            /\ ~pdf_obj.complete_zpl.v =>
                  /\ pdf_ret.text = InOrder(texts, 1)
                  /\ xa = 0
                  /\ xz = 0
                  /\ JoinPages([pdf_obj EXCEPT !.split_pages = PyBool(~pdf_obj.split_pages.v)],
                               texts) = pdf_ret.text

\* a document of three pages, 3, 2 and 1 pixels wide, has been converted
\* into three labels, the first "^XA\n^FO0,0^GFA,2,1,1,a0^FS\n^XZ\n"
C28_Witness ==
    /\ PdfConverted
    /\ Len(Pages) = 3
    /\ Pages[1] = Bitmap(3, 1)
    /\ Pages[3] = Bitmap(1, 1)
    /\ pdf_obj.complete_zpl.v
    /\ pdf_obj.split_pages.v
    /\ pdf_obj.format = ASCII
    /\ Occurrences(pdf_ret.text, <<"^", "X", "A">>) = 3
    /\ SubSeq(pdf_ret.text, 1, 32)
         = <<"^", "X", "A", "\n", "^", "F", "O", "0", ",", "0", "^", "G", "F", "A", ",",
             "2", ",", "1", ",", "1", ",", "a", "0", "^", "F", "S", "\n", "^", "X",
             "Z", "\n", "^">>

FormatNames == {ASCII, B64, Z64}

\* C24: whatever has been constructed and assigned, accepted or rejected,
\* a GraphicField, ZebrafyImage or ZebrafyPDF holds a format of ASCII, B64,
\* Z64, a threshold within 0..255, a rotation of 0, 90, 180, 270 and a dpi
\* within 1..720.
C24_ConfigurationValid ==
    /\ gf_obj # NoObject => gf_obj.format \in FormatNames
    /\ zi_obj # NoObject =>
          /\ zi_obj.format \in FormatNames
          /\ IsInt(zi_obj.threshold) /\ IntValue(zi_obj.threshold) \in 0..255
          /\ IsInt(zi_obj.rotation) /\ IntValue(zi_obj.rotation) \in {0, 90, 180, 270}
    /\ pdf_obj # NoObject =>
          /\ pdf_obj.format \in FormatNames
          /\ IsInt(pdf_obj.threshold) /\ IntValue(pdf_obj.threshold) \in 0..255
          /\ IsInt(pdf_obj.rotation) /\ IntValue(pdf_obj.rotation) \in {0, 90, 180, 270}
          /\ IsInt(pdf_obj.dpi) /\ IntValue(pdf_obj.dpi) \in 1..720

\* pdf.dpi = 721 has been refused on a ZebrafyPDF, which keeps its 72
C24_Witness ==
    /\ call.op = "ZebrafyPDF.set"
    /\ call.property = "dpi"
    /\ call.value = PyInt(721)
    /\ exc = "ValueError"
    /\ pdf_obj # NoObject
    /\ pdf_obj.dpi = PyInt(72)

\* the calls that assign a property
SetterCalls ==
    {"data_bytes", "poly", "pil_image", "format", "string_line_break", "zpl_data",
     "ZebrafyImage.set", "ZebrafyPDF.set"}

\* C25: an assignment to a property of a CRC, GraphicField, ZebrafyZPL,
\* ZebrafyImage or ZebrafyPDF that raises ValueError or TypeError leaves
\* every property of the instance as it was, the assigned one included, and
\* what was returned before as it was; get_crc_hex_string,
\* get_graphic_field, to_images and to_zpl read nothing but the properties,
\* so that they return after the assignment what they returned before it.
C25_RejectedChangesNothing ==
    [][(call'.op \in SetterCalls /\ exc' \in {"ValueError", "TypeError"}) =>
           /\ crc_obj' = crc_obj
           /\ gf_obj' = gf_obj
           /\ zpl_obj' = zpl_obj
           /\ zi_obj' = zi_obj
           /\ pdf_obj' = pdf_obj
           /\ UNCHANGED <<crc_pc, crc_ret, crc_hex, gf_ret, zpl_ret, zi_ret, pdf_ret>>]_vars

\* zi.threshold = 256 has been refused on a ZebrafyImage, which keeps its 128
C25_Witness ==
    /\ call.op = "ZebrafyImage.set"
    /\ call.property = "threshold"
    /\ call.value = PyInt(256)
    /\ exc = "ValueError"
    /\ zi_obj # NoObject
    /\ zi_obj.threshold = PyInt(128)

\* the value last given for string_line_break, by a constructor or a setter
LineBreakGiven ==
    CASE call.op = "GraphicField" -> <<call.string_line_break>>
      [] call.op = "string_line_break" -> <<call.value>>
      [] call.op \in {"ZebrafyImage", "ZebrafyPDF"} -> <<call.args.string_line_break>>
      [] call.op \in {"ZebrafyImage.set", "ZebrafyPDF.set"}
            /\ call.property = "string_line_break" -> <<call.value>>
      [] OTHER -> <<>>

\* what is stored is None or a positive integer
LineBreakStoredValid(s) == s = None \/ (s.t = "int" /\ s.v >= 1)

\* C26: giving string_line_break of a GraphicField, ZebrafyImage or
\* ZebrafyPDF an integer less than 1, zero included, raises ValueError (when
\* nothing before it raised), a value that is neither None nor an integer
\* raises TypeError, and only None or a positive integer is ever stored.
C26_LineBreakPositive ==
    /\ \A k \in 1..Len(LineBreakGiven) :
          LET s == LineBreakGiven[k]
          IN  /\ (s.t = "int" /\ s.v < 1) => exc # "none"
              /\ (s.t = "int" /\ s.v < 1 /\ call.op \in SetterCalls) => exc = "ValueError"
              /\ (s.t \notin {"int", "NoneType"} /\ call.op \in SetterCalls)
                    => exc = "TypeError"
    /\ gf_obj # NoObject => LineBreakStoredValid(gf_obj.string_line_break)
    /\ zi_obj # NoObject => LineBreakStoredValid(zi_obj.string_line_break)
    /\ pdf_obj # NoObject => LineBreakStoredValid(pdf_obj.string_line_break)

\* gf.string_line_break = 0 has been accepted and 0 is stored
C26_Witness ==
    /\ call.op = "string_line_break"
    /\ call.value = PyInt(0)
    /\ exc = "none"
    /\ gf_obj # NoObject
    /\ gf_obj.string_line_break = PyInt(0)

=============================================================================
